---------------------------- MODULE Spec2Model ----------------------------
(***************************************************************************)
(* The collect / display / send loop of UsageCollector                     *)
(* (src/cli_tool/collector.py) together with the state file and the        *)
(* throttled fetch of CursorCollector (src/cli_tool/cursor_collector.py).  *)
(*                                                                         *)
(* The monitoring coroutine is one asyncio task.  Its synchronous code     *)
(* runs without interleaving of other tasks; other callers (a second task  *)
(* or process using the same state file, stop_monitoring) act only while   *)
(* the coroutine is suspended at an await.  Time (time.time()) advances in *)
(* steps of TimeStep seconds at any point.                                 *)
(*                                                                         *)
(* Exceptions are modelled by their class, and every try/except of the     *)
(* source by the set of classes it catches:                                *)
(*   "Exception"          any subclass of Exception                        *)
(*   "KeyboardInterrupt"  raised by the default SIGINT handler inside      *)
(*                        whatever synchronous code is running             *)
(*   "CancelledError"     thrown into the coroutine at the await where it  *)
(*                        is suspended when its task is cancelled; this is *)
(*                        how asyncio.run delivers an interrupt that       *)
(*                        arrives while the task waits, and (Python 3.11   *)
(*                        and later) every first interrupt                 *)
(* KeyboardInterrupt and CancelledError derive from BaseException, not     *)
(* from Exception.                                                         *)
(***************************************************************************)
EXTENDS Integers, Sequences, FiniteSets, TLC

VARIABLES
    pc,             \* position of run_continuous_monitoring
    running,        \* self.running
    cycle_count,    \* local cycle_count of run_continuous_monitoring
    send_to_api,    \* argument of run_continuous_monitoring
    jwt_token,      \* self.jwt_token
    results,        \* results dict of collect_both_usage: cursor, claude
    pendingCancel,  \* Task.cancel() requested, to be thrown at the next await
    wakeAt,         \* time at which the asyncio.sleep of this cycle ends
    now,            \* time.time()
    stateFile,      \* ~/.ai-usage-tracker/state.json
    log,            \* what the current cycle has done so far (history)
    table,          \* the usage table the current cycle has printed
    interrupted,    \* a SIGINT has been delivered to the process
    stopRequested,  \* stop_monitoring() has been called during the run
    exc,            \* exception class that ended the run ("none": loop test)
    fpc,            \* position of a fetch_usage_with_interval_check call
    fstate,         \* its local `state`
    ftime,          \* its local `current_time`
    fcalls,         \* number of such calls made
    fresult,        \* what the last such call did
    fhist,          \* the calls made on their own, one record each (history)
    call            \* the last call of a function made on its own: its
                    \* name, its arguments and what it returned

vars == << pc, running, cycle_count, send_to_api, jwt_token, results,
           pendingCancel, wakeAt, now, stateFile, log, table, interrupted,
           stopRequested, exc, fpc, fstate, ftime, fcalls, fresult, fhist, call >>

fetchVars == << fpc, fstate, ftime, fcalls, fresult, fhist, call >>

sideVars == << table, fpc, fstate, ftime, fcalls, fresult, fhist, call >>

\* Everything but `call`.
runVars == << pc, running, cycle_count, send_to_api, jwt_token, results,
              pendingCancel, wakeAt, now, stateFile, log, table, interrupted,
              stopRequested, exc, fpc, fstate, ftime, fcalls, fresult, fhist >>

----------------------------------------------------------------------------
(* Bounds of the model *)

MaxCycles == 2          \* cycles a run may start
TicksPerInterval == 2   \* clock steps per collection interval
MaxTicks == 3           \* clock steps a behaviour may take
MaxFetchCalls == 1      \* calls of fetch_usage_with_interval_check
StartTime == 1000       \* time.time() when the model starts (epoch seconds)
MaxRows == 2            \* data rows of an export passed to parse_csv_data
MaxEvents == 3          \* usage events passed to the billing summary and the aggregator
MaxDays == 2            \* day entries of a ccusage document
MaxFetchSeq == 2        \* calls of fetch_usage_with_interval_check made on their own

(* Program constants *)

interval_seconds == 300
min_interval_seconds == 300

TimeStep == interval_seconds \div TicksPerInterval
MaxTime  == StartTime + MaxTicks * TimeStep

None == "None"

\* No function has been called on its own yet.
NoCall == [op |-> "none"]

----------------------------------------------------------------------------
(* State store *)

\* A Python dict is a function from its keys; d[k] = v is dict_set.
EmptyDict == << >>
dict_set(d, k, v) == (k :> v) @@ d

\* The billing summary of a fetch, as fetch_usage_with_interval_check stores
\* it in the state: totals and the usage of one model.
SampleSummary ==
    [period_start   |-> "2025-08-01T00:00:00+00:00",
     period_end     |-> "2025-08-18T12:00:00+00:00",
     total_requests |-> 2,
     total_tokens   |-> 30,
     total_cost     |-> 5,
     model_usage    |-> [gpt |-> [requests |-> 2, tokens |-> 30, cost |-> 5]],
     events_count   |-> 2]

\* The default state returned by load_state when the file is missing or
\* unreadable.
DefaultState ==
    [last_cursor_fetch   |-> 0,
     last_sent_summary   |-> EmptyDict,
     billing_anchor_date |-> "2024-09-28"]

\* The JSON text of the state file, as the sequence of its tokens
\* (whitespace and indentation left out).
Tok(t)    == [t |-> t,        s |-> "", n |-> 0]
StrTok(x) == [t |-> "string", s |-> x,  n |-> 0]
NumTok(x) == [t |-> "number", s |-> "", n |-> x]

\* The Python type of the value stored under each key of the state and of
\* the summary inside it; json.dump writes a value by its type.
KeyType(k) ==
    CASE k \in {"last_cursor_fetch", "total_requests", "total_tokens",
                "total_cost", "events_count", "requests", "tokens", "cost"}
              -> "number"
      [] k \in {"billing_anchor_date", "period_start", "period_end"}
              -> "string"
      [] OTHER -> "object"

\* The keys of a dict, in the order json.dump visits them.
RECURSIVE KeysInOrder(_)
KeysInOrder(S) ==
    IF S = {} THEN << >>
    ELSE LET k == CHOOSE x \in S : TRUE
         IN  <<k>> \o KeysInOrder(S \ {k})

\* json.dump writing a number with a precision of ten units.
dump_number_rounded(n) == NumTok((n \div 10) * 10)

\* json.dump of a number.
dump_number(n) == NumTok(n)

RECURSIVE json_dump_value(_, _)
RECURSIVE json_dump_members(_, _)

json_dump_value(v, type) ==
    CASE type = "number" -> << dump_number(v) >>
      [] type = "string" -> << StrTok(v) >>
      [] type = "object" -> << Tok("{") >>
                            \o json_dump_members(v, KeysInOrder(DOMAIN v))
                            \o << Tok("}") >>

json_dump_members(obj, keys) ==
    IF keys = << >> THEN << >>
    ELSE << StrTok(keys[1]), Tok(":") >>
         \o json_dump_value(obj[keys[1]], KeyType(keys[1]))
         \o (IF Len(keys) > 1 THEN << Tok(",") >> ELSE << >>)
         \o json_dump_members(obj, Tail(keys))

\* json.dump(state, f)
json_dump(state) == json_dump_value(state, "object")

\* json.load: the value that starts at token i and the index after it.
RECURSIVE json_parse_value(_, _)
RECURSIVE json_parse_members(_, _, _)

json_parse_value(text, i) ==
    CASE text[i].t = "number" -> [v |-> text[i].n, next |-> i + 1]
      [] text[i].t = "string" -> [v |-> text[i].s, next |-> i + 1]
      [] text[i].t = "{"      -> json_parse_members(text, i + 1, EmptyDict)

json_parse_members(text, i, acc) ==
    IF text[i].t = "}" THEN [v |-> acc, next |-> i + 1]
    ELSE LET key == text[i].s
             val == json_parse_value(text, i + 2)
             j   == IF text[val.next].t = "," THEN val.next + 1 ELSE val.next
         IN  json_parse_members(text, j, dict_set(acc, key, val.v))

\* json.load(f) of a complete document
json_load(text) == json_parse_value(text, 1).v

\* The file: absent, holding a complete JSON document, or holding a
\* truncated one.
FileAbsent  == [content |-> "absent",  text |-> << >>]
FileCorrupt == [content |-> "corrupt", text |-> << >>]
FileOf(state) == [content |-> "json", text |-> json_dump(state)]

load_state(file) ==
    IF file.content = "json"
    THEN json_load(file.text)
    ELSE DefaultState

\* open(..., 'w') truncates and json.dump writes; an error at open leaves the
\* file as it was, an error during the dump leaves a truncated document.
\* Either error is printed and swallowed.
SaveOutcomes == {"ok", "open_error", "write_error"}

save_state(file, state, outcome) ==
    CASE outcome = "ok"          -> FileOf(state)
      [] outcome = "open_error"  -> file
      [] outcome = "write_error" -> FileCorrupt

\* Points of save_state at which the process can be stopped (killed, or
\* interrupted by a KeyboardInterrupt, which `except Exception` does not
\* catch): before open(), after open() has truncated the file, while
\* json.dump writes, and after the file has been closed.
SavePoints == {"before_open", "after_open", "during_dump", "after_close"}

\* The file a save stopped at that point leaves behind.
save_state_interrupted(file, state, point) ==
    CASE point = "before_open" -> file
      [] point = "after_open"  -> FileCorrupt
      [] point = "during_dump" -> FileCorrupt
      [] point = "after_close" -> FileOf(state)

\* should_fetch_usage with `>=` for `>`.
should_fetch_usage_inclusive(last_fetch_time, min_interval, t) ==
    (t - last_fetch_time) >= min_interval

\* time.time() is passed as t.
should_fetch_usage(last_fetch_time, min_interval, t) ==
    (t - last_fetch_time) > min_interval

\* State files earlier runs can have left behind: none, a truncated one, or a
\* document whose last_cursor_fetch is 0 or the time of an earlier fetch.
InitialFiles ==
    {FileAbsent, FileCorrupt} \cup
    { FileOf(dict_set(DefaultState, "last_cursor_fetch", t)) :
          t \in {0, StartTime - TimeStep} }

----------------------------------------------------------------------------
(* Exception handling: which classes each try/except of the source catches *)

ExcClasses == {"Exception", "KeyboardInterrupt", "CancelledError"}

\* collect_both_usage without its try/except.
collect_both_catches_nothing(e) == FALSE

\* collect_both_usage: `except Exception` around each source.
collect_both_catches(e) == e = "Exception"

\* send_to_django without its try/except.
send_to_django_catches_nothing(e) == FALSE

\* send_to_django: `except Exception` around the request.
send_to_django_catches(e) == e = "Exception"

\* run_continuous_monitoring: `except KeyboardInterrupt`, `except Exception`.
monitor_catches(e) == e \in {"KeyboardInterrupt", "Exception"}

\* Positions at which the coroutine is suspended at an await, and positions
\* in synchronous code.
AwaitPcs == {"cursor_fetching", "posting_cursor", "posting_claude", "sleeping"}
SyncPcs  == {"loop_top", "collect_cursor", "collect_claude", "display",
             "send_cursor", "send_claude", "sleep_begin"}
EndPcs   == {"returned", "raised"}

\* The coroutine is suspended at an await or is not running.
MonitorSuspended == pc \in AwaitPcs \cup {"idle"} \cup EndPcs

\* The try/except of a callee that encloses position p, inside the try of
\* run_continuous_monitoring.
inner_catches(p, e) ==
    CASE p \in {"collect_cursor", "cursor_fetching", "collect_claude"}
              -> collect_both_catches(e)
      [] p \in {"posting_cursor", "posting_claude"}
              -> send_to_django_catches(e)
      [] OTHER -> FALSE

\* Exception e reaches the handlers of run_continuous_monitoring: a caught
\* one clears the running flag and the coroutine returns; any other class
\* leaves the coroutine, the flag untouched.
RaiseToMonitor(e) ==
    /\ exc' = e
    /\ IF monitor_catches(e)
       THEN pc' = "returned" /\ running' = FALSE
       ELSE pc' = "raised" /\ running' = running

Logged(ev, detail) == Append(log, <<ev, detail>>)

----------------------------------------------------------------------------
(* Control flow of one cycle of run_continuous_monitoring *)

\* The reset done in every cycle.
first_cycle_every(c) == TRUE

\* `if cycle_count == 1`: the cycle that resets the interval timer.
first_cycle(c) == c = 1

\* collect_both_usage goes on to the CLI-tool source after the IDE source.
after_collect_cursor == "collect_claude"

\* The send placed before the display.
after_collect_both_send_first == "send_cursor"

\* The table is displayed once collect_both_usage has returned.
after_collect_both == "display"

\* `if send_to_api:` after the table; otherwise straight to the sleep.
after_display(send) == IF send THEN "send_cursor" ELSE "sleep_begin"

\* A failed IDE send tried again at once.
after_send_cursor_retry(ok) == IF ok THEN "send_claude" ELSE "send_cursor"

\* send_to_django's result is discarded: whatever it is, the IDE send is
\* followed by the CLI-tool send, and that one by the sleep.
after_send_cursor(ok) == "send_claude"
after_send_claude(ok) == "sleep_begin"

\* The test reading a key the results never hold: no source is sent.
should_send_never(result) == FALSE

\* `if results['cursor']:` / `if results['claude']:` -- a source is sent only
\* when its result is not None.
should_send(result) == result # None

\* The token check left out.
has_token_unchecked(token) == TRUE

\* `if not self.jwt_token` -- send_to_django refuses to send without a token.
has_token(token) == token # ""

\* datetime.fromisoformat(date.replace('Z', '+00:00')) for the dates of the
\* sample events: whether the text parses, whether the datetime carries a
\* UTC offset, the instant in seconds after 2025-08-01T00:00:00Z, and its
\* .date().isoformat().  `before_T` is date.split('T')[0] if 'T' in date
\* else date.
fromisoformat(date) ==
    CASE date = "2025-07-31T23:59:59Z" ->
            [valid |-> TRUE, aware |-> TRUE, instant |-> -1,
             day |-> "2025-07-31", before_T |-> "2025-07-31"]
      [] date = "2025-08-01T00:00:00Z" ->
            [valid |-> TRUE, aware |-> TRUE, instant |-> 0,
             day |-> "2025-08-01", before_T |-> "2025-08-01"]
      [] date = "2025-08-05T10:00:00.000Z" ->
            [valid |-> TRUE, aware |-> TRUE, instant |-> 381600,
             day |-> "2025-08-05", before_T |-> "2025-08-05"]
      [] date = "2025-08-05T23:30:00.000Z" ->
            [valid |-> TRUE, aware |-> TRUE, instant |-> 430200,
             day |-> "2025-08-05", before_T |-> "2025-08-05"]
      [] date = "2025-08-05T10:00:00" ->
            [valid |-> TRUE, aware |-> FALSE, instant |-> 381600,
             day |-> "2025-08-05", before_T |-> "2025-08-05"]
      [] date = "2025-08-18T12:00:00Z" ->
            [valid |-> TRUE, aware |-> TRUE, instant |-> 1512000,
             day |-> "2025-08-18", before_T |-> "2025-08-18"]
      [] date = "2025-08-18T12:00:01Z" ->
            [valid |-> TRUE, aware |-> TRUE, instant |-> 1512001,
             day |-> "2025-08-18", before_T |-> "2025-08-18"]
      [] date = "Aug 5, 2025" ->
            [valid |-> FALSE, aware |-> FALSE, instant |-> 0,
             day |-> "", before_T |-> "Aug 5, 2025"]

\* A usage event as parse_csv_data builds it.
Event(date, model, kind, total_tokens, cost, included) ==
    [date                |-> date,
     user                |-> "user@example.com",
     kind                |-> kind,
     model               |-> model,
     input_with_cache    |-> 1,
     input_without_cache |-> 0,
     cache_read          |-> 0,
     output              |-> total_tokens - 1,
     total_tokens        |-> total_tokens,
     cost                |-> cost,
     included_in_subscription |-> included]

\* The date-only part of an event's date: the parsed date, or the fallback
\* of the bare `except:` when it does not parse.
date_key(date) ==
    IF fromisoformat(date).valid
    THEN fromisoformat(date).day
    ELSE fromisoformat(date).before_T

\* str(bool) inside the f-string.
PyBool(b) == IF b THEN "True" ELSE "False"

\* aggregate_key = f"{date_key}_{model}_{kind}_{included_in_subscription}"
aggregate_key(event) ==
    date_key(event.date) \o "_" \o event.model \o "_" \o event.kind
                         \o "_" \o PyBool(event.included_in_subscription)

\* The entry created for a key, from the event that brings the key.
new_aggregate(event) ==
    [date                |-> date_key(event.date),
     model               |-> event.model,
     kind                |-> event.kind,
     input_with_cache    |-> 0,
     input_without_cache |-> 0,
     cache_read          |-> 0,
     output              |-> 0,
     total_tokens        |-> 0,
     cost                |-> 0,
     requests            |-> 0,
     included_in_subscription |-> event.included_in_subscription]

\* The metrics of an event added to an entry, its requests set to one.
add_event_counted_once(entry, event) ==
    [entry EXCEPT !.input_with_cache    = @ + event.input_with_cache,
                  !.input_without_cache = @ + event.input_without_cache,
                  !.cache_read          = @ + event.cache_read,
                  !.output              = @ + event.output,
                  !.total_tokens        = @ + event.total_tokens,
                  !.cost                = @ + event.cost,
                  !.requests            = 1]

\* The metrics of an event added to an entry.
add_event(entry, event) ==
    [entry EXCEPT !.input_with_cache    = @ + event.input_with_cache,
                  !.input_without_cache = @ + event.input_without_cache,
                  !.cache_read          = @ + event.cache_read,
                  !.output              = @ + event.output,
                  !.total_tokens        = @ + event.total_tokens,
                  !.cost                = @ + event.cost,
                  !.requests            = @ + 1]

\* The loop over the events: daily_aggregates as the sequence of its
\* (key, entry) pairs in insertion order.
RECURSIVE aggregate_events(_, _)
aggregate_events(events, daily_aggregates) ==
    IF events = << >> THEN daily_aggregates
    ELSE LET event == events[1]
             key   == aggregate_key(event)
             at    == { i \in DOMAIN daily_aggregates : daily_aggregates[i].key = key }
         IN  IF at = {}
             THEN aggregate_events(Tail(events),
                      Append(daily_aggregates,
                             [key |-> key, entry |-> add_event(new_aggregate(event), event)]))
             ELSE LET i == CHOOSE j \in at : TRUE
                  IN  aggregate_events(Tail(events),
                          [daily_aggregates EXCEPT ![i].entry = add_event(@, event)])

aggregate_cursor_data_for_api(usage_data) ==
    LET daily_aggregates == aggregate_events(usage_data.usage_events, << >>)
    IN  [tool             |-> "cursor",
         daily_aggregates |-> [i \in DOMAIN daily_aggregates |-> daily_aggregates[i].entry],
         collection_info  |-> usage_data.collection_info,
         metadata         |-> usage_data.metadata]

\* An entry of modelBreakdowns, and a day entry of the ccusage document;
\* either can be something else than a dict, and is then skipped.
Breakdown(modelName, totalTokens, cost) ==
    [is_dict |-> TRUE, modelName |-> modelName, inputTokens |-> 1,
     outputTokens |-> totalTokens - 1, cacheCreationTokens |-> 0,
     cacheReadTokens |-> 0, totalTokens |-> totalTokens, cost |-> cost]

DayEntry(date, modelBreakdowns) ==
    [is_dict |-> TRUE, date |-> date, modelBreakdowns |-> modelBreakdowns]

NotADict == [is_dict |-> FALSE]

\* d.get(key, default) of a dict of the ccusage document.
dict_get(d, key, default) == IF key \in DOMAIN d THEN d[key] ELSE default

\* The metrics of a breakdown replacing those of the entry of its model.
add_breakdown_overwrite(metrics, breakdown) ==
    [metrics EXCEPT !.input_tokens          = dict_get(breakdown, "inputTokens", 0),
                    !.output_tokens         = dict_get(breakdown, "outputTokens", 0),
                    !.cache_creation_tokens = dict_get(breakdown, "cacheCreationTokens", 0),
                    !.cache_read_tokens     = dict_get(breakdown, "cacheReadTokens", 0),
                    !.total_tokens          = dict_get(breakdown, "totalTokens", 0),
                    !.cost                  = dict_get(breakdown, "cost", 0)]

\* The metrics of a breakdown added to the entry of its model.
add_breakdown(metrics, breakdown) ==
    [metrics EXCEPT !.input_tokens          = @ + dict_get(breakdown, "inputTokens", 0),
                    !.output_tokens         = @ + dict_get(breakdown, "outputTokens", 0),
                    !.cache_creation_tokens = @ + dict_get(breakdown, "cacheCreationTokens", 0),
                    !.cache_read_tokens     = @ + dict_get(breakdown, "cacheReadTokens", 0),
                    !.total_tokens          = @ + dict_get(breakdown, "totalTokens", 0),
                    !.cost                  = @ + dict_get(breakdown, "cost", 0)]

\* The inner loop: model_aggregates of one day, in insertion order.
RECURSIVE aggregate_breakdowns(_, _)
aggregate_breakdowns(model_breakdowns, model_aggregates) ==
    IF model_breakdowns = << >> THEN model_aggregates
    ELSE LET breakdown == model_breakdowns[1]
         IN  IF ~breakdown.is_dict
             THEN aggregate_breakdowns(Tail(model_breakdowns), model_aggregates)
             ELSE LET model_name == dict_get(breakdown, "modelName", "unknown")
                      at == { i \in DOMAIN model_aggregates :
                                 model_aggregates[i].model = model_name }
                      zero == [input_tokens |-> 0, output_tokens |-> 0,
                               cache_creation_tokens |-> 0, cache_read_tokens |-> 0,
                               total_tokens |-> 0, cost |-> 0]
                  IN  IF at = {}
                      THEN aggregate_breakdowns(Tail(model_breakdowns),
                               Append(model_aggregates,
                                      [model   |-> model_name,
                                       metrics |-> add_breakdown(zero, breakdown)]))
                      ELSE LET i == CHOOSE j \in at : TRUE
                           IN  aggregate_breakdowns(Tail(model_breakdowns),
                                   [model_aggregates EXCEPT
                                       ![i].metrics = add_breakdown(@, breakdown)])

\* The records of one day: {'date': date, 'model': model_name, **metrics}.
day_records(day_entry) ==
    LET model_aggregates ==
            aggregate_breakdowns(dict_get(day_entry, "modelBreakdowns", << >>), << >>)
    IN  [i \in DOMAIN model_aggregates |->
            [date                  |-> dict_get(day_entry, "date", None),
             model                 |-> model_aggregates[i].model,
             input_tokens          |-> model_aggregates[i].metrics.input_tokens,
             output_tokens         |-> model_aggregates[i].metrics.output_tokens,
             cache_creation_tokens |-> model_aggregates[i].metrics.cache_creation_tokens,
             cache_read_tokens     |-> model_aggregates[i].metrics.cache_read_tokens,
             total_tokens          |-> model_aggregates[i].metrics.total_tokens,
             cost                  |-> model_aggregates[i].metrics.cost]]

\* The outer loop over the day entries.
RECURSIVE aggregate_days(_)
aggregate_days(daily_data) ==
    IF daily_data = << >> THEN << >>
    ELSE (IF daily_data[1].is_dict THEN day_records(daily_data[1]) ELSE << >>)
         \o aggregate_days(Tail(daily_data))

aggregate_claude_data_for_api(usage_data) ==
    [tool             |-> "claude",
     daily_aggregates |-> aggregate_days(usage_data.daily),
     totals           |-> usage_data.totals,
     collection_info  |-> usage_data.collection_info,
     metadata         |-> usage_data.metadata]

\* The sum of a field over a sequence of records.
RECURSIVE SumOver(_, _)
SumOver(seq, field) ==
    IF seq = << >> THEN 0 ELSE seq[1][field] + SumOver(Tail(seq), field)

\* CursorCollector.calculate_billing_period_usage.
\* The test made on each event.  A date that does not parse raises
\* ValueError and one without UTC offset raises TypeError when compared with
\* the period's bounds: the event is skipped.
event_in_period(event, period_start, period_end) ==
    LET event_date == fromisoformat(event.date)
    IN  /\ event_date.valid
        /\ event_date.aware
        /\ period_start <= event_date.instant
        /\ event_date.instant <= period_end

\* The keys of model_usage in the order the loop inserts them: the models
\* of the period's events, each at its first occurrence.
RECURSIVE keys_in_order(_, _)
keys_in_order(period_events, keys) ==
    IF period_events = << >> THEN keys
    ELSE LET model == period_events[1].model
         IN  IF \E i \in DOMAIN keys : keys[i] = model
             THEN keys_in_order(Tail(period_events), keys)
             ELSE keys_in_order(Tail(period_events), Append(keys, model))

\* The summary; model_usage is a dict, given as its mapping and the order
\* of its keys.
calculate_billing_period_usage(usage_events, period_start, period_end) ==
    LET period_events ==
            SelectSeq(usage_events,
                      LAMBDA event : event_in_period(event, period_start, period_end))
        models == { period_events[i].model : i \in DOMAIN period_events }
        of(model) == SelectSeq(period_events, LAMBDA event : event.model = model)
    IN  [period_start   |-> period_start,
         period_end     |-> period_end,
         total_requests |-> Len(period_events),
         total_tokens   |-> SumOver(period_events, "total_tokens"),
         total_cost     |-> SumOver(period_events, "cost"),
         model_usage    |-> [model \in models |->
                                [requests |-> Len(of(model)),
                                 tokens   |-> SumOver(of(model), "total_tokens"),
                                 cost     |-> SumOver(of(model), "cost")]],
         model_usage_keys |-> keys_in_order(period_events, << >>),
         events_count   |-> Len(period_events)]

\* The period get_current_month_period returns, in seconds after
\* 2025-08-01T00:00:00Z: from the first of the month to the time of the call.
PeriodStart == 0
PeriodEnd   == 1512000

\* collect_cursor_usage: the parsed export with the billing summary and the
\* collection info added.
collect_cursor_usage(usage_events) ==
    [usage_events           |-> usage_events,
     billing_period_summary |-> calculate_billing_period_usage(usage_events,
                                                               PeriodStart, PeriodEnd),
     collection_info        |-> [tool |-> "cursor", data_type |-> "month_to_date_csv",
                                 total_events |-> Len(usage_events)],
     metadata               |-> [data_collection_method |-> "cursor_csv_export"]]

\* What collect_cursor_usage returns when the export held events.
CursorUsageData ==
    collect_cursor_usage(<< Event("2025-08-05T10:00:00.000Z", "gpt", "Included in Pro",
                                  10, 0, TRUE) >>)

\* A value of the totals of a ccusage document: a number, or something else.
JsonNum(n) == [k |-> "num", n |-> n]
JsonStr    == [k |-> "str", n |-> 0]

\* What collect_claude_usage returns for each kind of ccusage document; the
\* totals are passed on as they are.
ClaudeUsageData(kind) ==
    [daily           |-> << DayEntry("2025-08-05", << Breakdown("opus", 10, 5) >>) >>,
     totals          |-> [totalTokens |-> IF kind = "bad_totals" THEN JsonStr
                                                                   ELSE JsonNum(12),
                          totalCost   |-> JsonNum(5)],
     collection_info |-> [tool |-> "claude", data_type |-> "ccusage_daily_breakdown",
                          daily_entries |-> 1],
     metadata        |-> [data_collection_method |-> "claude_ccusage_cli"]]

\* The document a non-null entry of `results` stands for.
ResultData(result) ==
    IF result = "data" THEN CursorUsageData ELSE ClaudeUsageData(result)

\* Results of the CLI-tool extractor: a well-formed document, one whose
\* totals are not numbers (the table's arithmetic and formatting raise), and
\* one with a non-numeric token count that only the aggregator adds up.
ClaudeData == {"ok", "bad_totals", "bad_breakdown"}

\* A result that is None.
NoData == [none |-> TRUE]

\* The value passed to the table and the aggregators for an entry of
\* `results`.
DataOf(result) == IF result = None THEN NoData ELSE ResultData(result)

\* The rows of the IDE source: one per item of model_usage, in the order of
\* the dict, when the result holds a billing summary.
cursor_rows(cursor_data) ==
    IF "billing_period_summary" \notin DOMAIN cursor_data THEN << >>
    ELSE LET billing_summary == cursor_data.billing_period_summary
             keys == billing_summary.model_usage_keys
         IN  [i \in DOMAIN keys |->
                 [provider |-> "Cursor",
                  model    |-> keys[i],
                  tokens   |-> billing_summary.model_usage[keys[i]].tokens,
                  cost     |-> billing_summary.model_usage[keys[i]].cost]]

\* The breakdown dicts of the day entries that are dicts with a
\* modelBreakdowns key.
RECURSIVE breakdowns_of(_)
breakdowns_of(daily) ==
    IF daily = << >> THEN << >>
    ELSE (IF daily[1].is_dict /\ "modelBreakdowns" \in DOMAIN daily[1]
          THEN SelectSeq(daily[1].modelBreakdowns, LAMBDA breakdown : breakdown.is_dict)
          ELSE << >>)
         \o breakdowns_of(Tail(daily))

\* models_used: the model names found in the daily data.
models_used(claude_data) ==
    IF "daily" \in DOMAIN claude_data /\ claude_data.daily # << >>
    THEN LET breakdowns == breakdowns_of(claude_data.daily)
         IN  { breakdowns[i].modelName :
                  i \in { j \in DOMAIN breakdowns : "modelName" \in DOMAIN breakdowns[j] } }
    ELSE {}

\* The place of a model name in the order of Python's str comparison.
NameRank(name) ==
    CASE name = "m1"      -> 1
      [] name = "opus"    -> 2
      [] name = "sonnet"  -> 3
      [] name = "unknown" -> 4

\* sorted(models_used)
RECURSIVE sorted(_)
sorted(names) ==
    IF names = {} THEN << >>
    ELSE LET least == CHOOSE x \in names : \A y \in names : NameRank(x) <= NameRank(y)
         IN  << least >> \o sorted(names \ {least})

\* The row of a model of the CLI-tool source: input plus output tokens and
\* cost of the breakdowns that carry its name, over all days.
model_row(claude_data, model_name) ==
    LET mine == SelectSeq(breakdowns_of(claude_data.daily),
                          LAMBDA breakdown :
                              dict_get(breakdown, "modelName", None) = model_name)
        tokens(breakdown) == dict_get(breakdown, "inputTokens", 0)
                             + dict_get(breakdown, "outputTokens", 0)
        cost(breakdown)   == dict_get(breakdown, "cost", 0)
    IN  [provider |-> "Claude",
         model    |-> model_name,
         tokens   |-> SumOver([i \in DOMAIN mine |-> [v |-> tokens(mine[i])]], "v"),
         cost     |-> SumOver([i \in DOMAIN mine |-> [v |-> cost(mine[i])]], "v")]

\* The rows of the CLI-tool source, printed when the result holds totals:
\* one per model name in ascending order, or the fallback row with the
\* totals.
claude_rows(claude_data, tokens, cost) ==
    LET names == sorted(models_used(claude_data))
    IN  IF names # << >>
        THEN [i \in DOMAIN names |-> model_row(claude_data, names[i])]
        ELSE << [provider |-> "Claude",
                 model    |-> "claude-sonnet-4-20250514 fallback",
                 tokens   |-> tokens,
                 cost     |-> cost] >>

\* The TOTAL row, without the totals of the CLI-tool source.
total_row_cursor_only(rows, tokens, cost) ==
    [tokens |-> SumOver(rows, "tokens"), cost |-> SumOver(rows, "cost")]

\* The TOTAL row: the sums over the rows of the IDE source plus the totals
\* of the CLI-tool source.
total_row(rows, tokens, cost) ==
    [tokens |-> SumOver(rows, "tokens") + tokens,
     cost   |-> SumOver(rows, "cost") + cost]

\* display_combined_usage_table: the rows printed, the TOTAL row if it is
\* reached, and the exception raised, if any.  Totals that are not numbers
\* make `total_tokens += tokens` raise TypeError after the rows of the IDE
\* source.
display_combined_usage_table(cursor_data, claude_data) ==
    LET ide == cursor_rows(cursor_data)
    IN  IF "totals" \notin DOMAIN claude_data
        THEN [raised |-> "none", rows |-> ide, totals |-> << total_row(ide, 0, 0) >>]
        ELSE LET tokens == dict_get(claude_data.totals, "totalTokens", JsonNum(0))
                 cost   == dict_get(claude_data.totals, "totalCost", JsonNum(0))
             IN  IF tokens.k # "num" \/ cost.k # "num"
                 THEN [raised |-> "TypeError", rows |-> ide, totals |-> << >>]
                 ELSE [raised |-> "none",
                       rows   |-> ide \o claude_rows(claude_data, tokens.n, cost.n),
                       totals |-> << total_row(ide, tokens.n, cost.n) >>]

\* Nothing printed yet.
NoTable == [raised |-> "none", rows |-> << >>, totals |-> << >>]

display_raises(cursor_data, claude_data) ==
    display_combined_usage_table(DataOf(cursor_data), DataOf(claude_data)).raised # "none"
aggregate_claude_raises(usage_data) == usage_data = "bad_breakdown"

\* What the POST to the collection endpoint can end with: a response (its
\* status code and its body) or a network error (timeout, refused
\* connection), which httpx raises.  A body is a JSON object holding the
\* members the code reads ('message', 'detail', 'error'), a JSON object
\* without them, another JSON value (an array), or not JSON at all.
StatusCodes == {"200", "401", "429", "400", "413", "500"}
BodyKinds   == {"object", "object_no_members", "array", "not_json"}
NetworkError == [status |-> "network_error", body |-> "not_json"]
PostOutcomes == [status : StatusCodes, body : BodyKinds] \cup {NetworkError}

\* The text the server put in the member the code reads.
ServerText == "text sent by the server"

\* response.json() followed by .get(member, default): raises unless the body
\* is a JSON object; the member's text, or the default when it is missing.
json_get_raises(body) == body \in {"array", "not_json"}
json_get(body, default) == IF body = "object" THEN ServerText ELSE default

\* A line printed for the user: the symbol it starts with, the fixed text
\* and the text inserted after it.
Message(symbol, text, inserted) ==
    [symbol |-> symbol, text |-> text, inserted |-> inserted]

\* The body of send_to_django's try for a request that was issued: what it
\* returns and prints, or that it raises.
send_to_django_try(resp) ==
    CASE resp.status = "network_error" ->
            [raises |-> TRUE, returned |-> FALSE, message |-> Message("", "", "")]
      [] resp.status = "200" ->
            IF json_get_raises(resp.body)
            THEN [raises |-> TRUE, returned |-> FALSE, message |-> Message("", "", "")]
            ELSE [raises |-> FALSE, returned |-> TRUE,
                  message |-> Message("ok", "",
                                      json_get(resp.body, "Usage data sent successfully"))]
      [] resp.status = "401" ->
            [raises |-> FALSE, returned |-> FALSE,
             message |->
                IF json_get_raises(resp.body)
                THEN Message("error", "Invalid JWT token. Please refresh your token from the web interface", "")
                ELSE Message("error", "Authentication failed: ",
                             json_get(resp.body, "Invalid JWT token"))]
      [] resp.status = "429" ->
            [raises |-> FALSE, returned |-> FALSE,
             message |->
                IF json_get_raises(resp.body)
                THEN Message("warning", "Rate limit exceeded. Please try again later.", "")
                ELSE Message("warning", "", json_get(resp.body, "Rate limit exceeded"))]
      [] resp.status = "400" ->
            [raises |-> FALSE, returned |-> FALSE,
             message |->
                IF json_get_raises(resp.body)
                THEN Message("error", "Bad request - invalid data format", "")
                ELSE Message("error", "Validation error: ",
                             json_get(resp.body, "Validation error"))]
      [] resp.status = "413" ->
            [raises |-> FALSE, returned |-> FALSE,
             message |-> Message("warning", "Data too large. Try reducing the date range.", "")]
      [] OTHER ->
            [raises |-> FALSE, returned |-> FALSE,
             message |-> Message("error", "Failed to send usage data: HTTP ", resp.status)]

\* send_to_django for a request that was issued: an exception raised in the
\* try is printed and turned into False by `except Exception`.
send_to_django_response(resp) ==
    LET r == send_to_django_try(resp)
    IN  IF r.raises /\ send_to_django_catches("Exception")
        THEN [raises |-> FALSE, returned |-> FALSE,
              message |-> Message("error", "Error sending usage data: ", "exception")]
        ELSE r

\* send_to_django's return value.
send_to_django_result(outcome) == send_to_django_response(outcome).returned

\* The kind of outcome, as recorded in the history.
OutcomeKind(outcome) ==
    CASE send_to_django_try(outcome).raises   -> "exception"
      [] send_to_django_try(outcome).returned -> "success"
      [] OTHER                                -> "http_error"

----------------------------------------------------------------------------
(* run_continuous_monitoring *)

Init ==
    /\ pc = "idle"
    /\ running = FALSE
    /\ cycle_count = 0
    /\ send_to_api = FALSE
    /\ jwt_token \in {"", "tok"}
    /\ results = [cursor |-> None, claude |-> None]
    /\ pendingCancel = FALSE
    /\ wakeAt = 0
    /\ now = StartTime
    /\ stateFile \in InitialFiles
    /\ log = << >>
    /\ table = NoTable
    /\ interrupted = FALSE
    /\ stopRequested = FALSE
    /\ exc = "none"
    /\ fpc = "idle"
    /\ fstate = DefaultState
    /\ ftime = 0
    /\ fcalls = 0
    /\ fresult = "none"
    /\ fhist = << >>
    /\ call = NoCall

\* run_continuous_monitoring(send_to_api) is called: running = True,
\* cycle_count = 0, and the loop is entered.
Start(send) ==
    /\ pc = "idle"
    /\ pc' = "loop_top"
    /\ running' = TRUE
    /\ cycle_count' = 0
    /\ send_to_api' = send
    /\ UNCHANGED << jwt_token, results, pendingCancel, wakeAt, now, stateFile,
                    log, interrupted, stopRequested, exc >>
    /\ UNCHANGED sideVars

\* `while self.running:` is false: the coroutine returns.
LoopExit ==
    /\ pc = "loop_top"
    /\ ~running
    /\ pc' = "returned"
    /\ UNCHANGED << running, cycle_count, send_to_api, jwt_token, results,
                    pendingCancel, wakeAt, now, stateFile, log, interrupted,
                    stopRequested, exc >>
    /\ UNCHANGED sideVars

\* The first cycle: cycle_count becomes 1, the state is loaded, its
\* last_cursor_fetch set to 0 and saved.
FirstCycle(outcome) ==
    /\ pc = "loop_top"
    /\ running
    /\ first_cycle(cycle_count + 1)
    /\ cycle_count < MaxCycles
    /\ cycle_count' = cycle_count + 1
    /\ stateFile' = save_state(stateFile,
                               dict_set(load_state(stateFile), "last_cursor_fetch", 0),
                               outcome)
    /\ log' = << <<"load_state", "">>, <<"reset", outcome>> >>
    /\ pc' = "collect_cursor"
    /\ UNCHANGED << running, send_to_api, jwt_token, results, pendingCancel,
                    wakeAt, now, interrupted, stopRequested, exc >>
    /\ table' = NoTable
    /\ UNCHANGED fetchVars

\* A later cycle: cycle_count is incremented and collection starts.
LaterCycle ==
    /\ pc = "loop_top"
    /\ running
    /\ ~first_cycle(cycle_count + 1)
    /\ cycle_count < MaxCycles
    /\ cycle_count' = cycle_count + 1
    /\ log' = << >>
    /\ pc' = "collect_cursor"
    /\ UNCHANGED << running, send_to_api, jwt_token, results, pendingCancel,
                    wakeAt, now, stateFile, interrupted, stopRequested, exc >>
    /\ table' = NoTable
    /\ UNCHANGED fetchVars


----------------------------------------------------------------------------
(* collect_both_usage *)

\* Exception e is raised inside the try around the IDE source: caught there,
\* the IDE result stays None and the CLI-tool source is next; otherwise it
\* reaches run_continuous_monitoring.
CursorRaised(e, lg) ==
    IF collect_both_catches(e)
    THEN /\ results' = [cursor |-> None, claude |-> None]
         /\ log' = Append(lg, <<"cursor_result", "raise">>)
         /\ pc' = after_collect_cursor
         /\ UNCHANGED << running, exc >>
    ELSE /\ RaiseToMonitor(e)
         /\ results' = [cursor |-> None, claude |-> None]
         /\ log' = Append(lg, <<"cursor_result", "raise">>)

\* collect_both_usage starts: results = {cursor: None, claude: None}, then
\* collect_cursor_usage -> CursorCollector.collect_usage, up to its first
\* await.  Without a session token collect_usage returns None; with one the
\* GET of the export is issued.  The throttle state is not consulted.
CollectCursorBegin(o) ==
    /\ pc = "collect_cursor"
    /\ o \in {"no_token", "get", "raise"}
    /\ CASE o = "no_token" ->
              /\ results' = [cursor |-> None, claude |-> None]
              /\ log' = log \o << <<"cursor_try", "">>, <<"cursor_result", "none">> >>
              /\ pc' = after_collect_cursor
              /\ UNCHANGED << running, exc >>
         [] o = "get" ->
              /\ results' = [cursor |-> None, claude |-> None]
              /\ log' = log \o << <<"cursor_try", "">>, <<"get", "cursor">> >>
              /\ pc' = "cursor_fetching"
              /\ UNCHANGED << running, exc >>
         [] o = "raise" ->
              CursorRaised("Exception", Logged("cursor_try", ""))
    /\ UNCHANGED << cycle_count, send_to_api, jwt_token, pendingCancel, wakeAt,
                    now, stateFile, interrupted, stopRequested >>
    /\ UNCHANGED sideVars

\* The GET has ended.  An HTTP error or timeout makes fetch_csv_export return
\* "" and an export without events parses to nothing: collect_usage returns
\* None.  With events, collect_cursor_usage adds the billing summary and
\* returns the data.  No state is saved.
CollectCursorEnd(o) ==
    /\ pc = "cursor_fetching"
    /\ ~pendingCancel
    /\ o \in {"http_error", "no_events", "events", "raise"}
    /\ CASE o \in {"http_error", "no_events"} ->
              /\ results' = [results EXCEPT !.cursor = None]
              /\ log' = Logged("cursor_result", "none")
              /\ pc' = after_collect_cursor
              /\ UNCHANGED << running, exc >>
         [] o = "events" ->
              /\ results' = [results EXCEPT !.cursor = "data"]
              /\ log' = Logged("cursor_result", "data")
              /\ pc' = after_collect_cursor
              /\ UNCHANGED << running, exc >>
         [] o = "raise" ->
              CursorRaised("Exception", log)
    /\ UNCHANGED << cycle_count, send_to_api, jwt_token, pendingCancel, wakeAt,
                    now, stateFile, interrupted, stopRequested >>
    /\ UNCHANGED sideVars

\* collect_claude_usage: the ccusage subprocess is run synchronously.  An
\* exception is caught by collect_both_usage; "no data" and data are stored
\* as returned.  collect_both_usage then returns.
CollectClaude(o) ==
    /\ pc = "collect_claude"
    /\ o \in {"raise", "none"} \cup ClaudeData
    /\ CASE o = "raise" ->
              IF collect_both_catches("Exception")
              THEN /\ log' = log \o << <<"claude_try", "">>, <<"claude_result", "raise">> >>
                   /\ pc' = after_collect_both
                   /\ UNCHANGED << results, running, exc >>
              ELSE /\ RaiseToMonitor("Exception")
                   /\ log' = log \o << <<"claude_try", "">>, <<"claude_result", "raise">> >>
                   /\ UNCHANGED results
         [] o = "none" ->
              /\ log' = log \o << <<"claude_try", "">>, <<"claude_result", "none">> >>
              /\ pc' = after_collect_both
              /\ UNCHANGED << results, running, exc >>
         [] OTHER ->
              /\ results' = [results EXCEPT !.claude = o]
              /\ log' = log \o << <<"claude_try", "">>, <<"claude_result", "data">> >>
              /\ pc' = after_collect_both
              /\ UNCHANGED << running, exc >>
    /\ UNCHANGED << cycle_count, send_to_api, jwt_token, pendingCancel, wakeAt,
                    now, stateFile, interrupted, stopRequested >>
    /\ UNCHANGED sideVars

----------------------------------------------------------------------------
(* Display *)

\* display_combined_usage_table is called outside any try of its own: an
\* exception in it reaches the handlers of run_continuous_monitoring.
Display ==
    /\ pc = "display"
    /\ IF display_raises(results.cursor, results.claude)
       THEN /\ log' = Logged("display", "raise")
            /\ RaiseToMonitor("Exception")
       ELSE /\ log' = Logged("display", "ok")
            /\ pc' = after_display(send_to_api)
            /\ UNCHANGED << running, exc >>
    /\ UNCHANGED << cycle_count, send_to_api, jwt_token, results, pendingCancel,
                    wakeAt, now, stateFile, interrupted, stopRequested >>
    /\ table' = display_combined_usage_table(DataOf(results.cursor),
                                              DataOf(results.claude))
    /\ UNCHANGED fetchVars


----------------------------------------------------------------------------
(* Sending *)

\* send_to_django(payload) for the source `src`, up to its await: without a
\* token it prints and returns False, no request made; with one the POST is
\* issued.
SendToDjangoBegin(src, payload, next_if_refused) ==
    IF has_token(jwt_token)
    THEN /\ log' = log \o << <<"send_" \o src, payload.tool>>,
                             <<"post_" \o src, payload.tool>> >>
         /\ pc' = "posting_" \o src
    ELSE /\ log' = log \o << <<"send_" \o src, payload.tool>>,
                             <<"sent_" \o src, "no_token">> >>
         /\ pc' = next_if_refused

\* `if results['cursor']:` aggregate_cursor_data_for_api, send_to_django.
SendCursor ==
    /\ pc = "send_cursor"
    /\ IF should_send(results.cursor)
       THEN SendToDjangoBegin("cursor",
                              aggregate_cursor_data_for_api(ResultData(results.cursor)),
                              after_send_cursor(FALSE))
       ELSE /\ pc' = "send_claude"
            /\ UNCHANGED log
    /\ UNCHANGED << running, exc, cycle_count, send_to_api, jwt_token, results,
                    pendingCancel, wakeAt, now, stateFile, interrupted,
                    stopRequested >>
    /\ UNCHANGED sideVars

\* `if results['claude']:` aggregate_claude_data_for_api, send_to_django.
\* The aggregator runs outside any try of its own.
SendClaude ==
    /\ pc = "send_claude"
    /\ IF should_send(results.claude)
       THEN IF aggregate_claude_raises(results.claude)
            THEN /\ log' = Logged("aggregate_claude", "raise")
                 /\ RaiseToMonitor("Exception")
            ELSE /\ SendToDjangoBegin("claude",
                                      aggregate_claude_data_for_api(ResultData(results.claude)),
                                      after_send_claude(FALSE))
                 /\ UNCHANGED << running, exc >>
       ELSE /\ pc' = "sleep_begin"
            /\ UNCHANGED << log, running, exc >>
    /\ UNCHANGED << cycle_count, send_to_api, jwt_token, results, pendingCancel,
                    wakeAt, now, stateFile, interrupted, stopRequested >>
    /\ UNCHANGED sideVars

\* The POST has ended with a response or a network error.  A network error,
\* or a 200 response whose body cannot be read, is an Exception raised
\* inside send_to_django's try.
PostDone(src, o) ==
    /\ pc = "posting_" \o src
    /\ ~pendingCancel
    /\ o \in PostOutcomes
    /\ IF send_to_django_response(o).raises
       THEN /\ log' = Logged("sent_" \o src, OutcomeKind(o))
            /\ RaiseToMonitor("Exception")
       ELSE /\ log' = Logged("sent_" \o src, OutcomeKind(o))
            /\ pc' = IF src = "cursor"
                     THEN after_send_cursor(send_to_django_result(o))
                     ELSE after_send_claude(send_to_django_result(o))
            /\ UNCHANGED << running, exc >>
    /\ UNCHANGED << cycle_count, send_to_api, jwt_token, results, pendingCancel,
                    wakeAt, now, stateFile, interrupted, stopRequested >>
    /\ UNCHANGED sideVars

----------------------------------------------------------------------------
(* Waiting for the next cycle *)

\* `await asyncio.sleep(self.interval_seconds)` starts.
SleepBegin ==
    /\ pc = "sleep_begin"
    /\ wakeAt' = now + interval_seconds
    /\ log' = Logged("sleep", "")
    /\ pc' = "sleeping"
    /\ UNCHANGED << running, exc, cycle_count, send_to_api, jwt_token, results,
                    pendingCancel, now, stateFile, interrupted, stopRequested >>
    /\ UNCHANGED sideVars

\* The sleep ends once the interval has passed; the loop test is next.
Wake ==
    /\ pc = "sleeping"
    /\ ~pendingCancel
    /\ now >= wakeAt
    /\ log' = Logged("woke", "")
    /\ pc' = "loop_top"
    /\ UNCHANGED << running, exc, cycle_count, send_to_api, jwt_token, results,
                    pendingCancel, wakeAt, now, stateFile, interrupted,
                    stopRequested >>
    /\ UNCHANGED sideVars

\* time.time() advances by TimeStep.  A step is far longer than any
\* synchronous section of the coroutine, so the clock moves only while the
\* coroutine waits (a request, the sleep) or is not running.
Tick ==
    /\ MonitorSuspended
    /\ now + TimeStep <= MaxTime
    /\ now' = now + TimeStep
    /\ UNCHANGED << pc, running, cycle_count, send_to_api, jwt_token, results,
                    pendingCancel, wakeAt, stateFile, log, interrupted,
                    stopRequested, exc >>
    /\ UNCHANGED sideVars

----------------------------------------------------------------------------
(* stop_monitoring and interrupts *)

\* stop_monitoring() that also ends a sleep in progress.
StopMonitoringEndsSleep ==
    /\ pc \in SyncPcs \cup AwaitPcs
    /\ ~stopRequested
    /\ running' = FALSE
    /\ stopRequested' = TRUE
    /\ pc' = IF pc = "sleeping" THEN "loop_top" ELSE pc
    /\ UNCHANGED << cycle_count, send_to_api, jwt_token, results,
                    pendingCancel, wakeAt, now, stateFile, log, interrupted, exc >>
    /\ UNCHANGED sideVars

\* stop_monitoring(): self.running = False, nothing else.
StopMonitoring ==
    /\ pc \in SyncPcs \cup AwaitPcs
    /\ ~stopRequested
    /\ running' = FALSE
    /\ stopRequested' = TRUE
    /\ UNCHANGED << pc, cycle_count, send_to_api, jwt_token, results,
                    pendingCancel, wakeAt, now, stateFile, log, interrupted, exc >>
    /\ UNCHANGED sideVars

\* SIGINT while the coroutine executes synchronous code, with the default
\* handler: KeyboardInterrupt is raised at that point.  No `except Exception`
\* of a callee catches it.
InterruptRaise ==
    /\ ~interrupted
    /\ pc \in SyncPcs
    /\ ~inner_catches(pc, "KeyboardInterrupt")
    /\ interrupted' = TRUE
    /\ RaiseToMonitor("KeyboardInterrupt")
    /\ UNCHANGED << cycle_count, send_to_api, jwt_token, results, pendingCancel,
                    wakeAt, now, stateFile, log, stopRequested >>
    /\ UNCHANGED sideVars

\* The same, while aggregate_cursor_data_for_api parses an event's date: the
\* bare `except:` there catches the KeyboardInterrupt and the loop goes on.
InterruptSwallowed ==
    /\ ~interrupted
    /\ pc = "send_cursor"
    /\ should_send(results.cursor)
    /\ interrupted' = TRUE
    /\ UNCHANGED << pc, running, exc, cycle_count, send_to_api, jwt_token,
                    results, pendingCancel, wakeAt, now, stateFile, log,
                    stopRequested >>
    /\ UNCHANGED sideVars

\* SIGINT while the coroutine executes synchronous code, under asyncio.run
\* of Python 3.11 and later: the handler cancels the task and returns; the
\* CancelledError is thrown at the next await.
InterruptCancel ==
    /\ ~interrupted
    /\ pc \in SyncPcs
    /\ interrupted' = TRUE
    /\ pendingCancel' = TRUE
    /\ UNCHANGED << pc, running, exc, cycle_count, send_to_api, jwt_token,
                    results, wakeAt, now, stateFile, log, stopRequested >>
    /\ UNCHANGED sideVars

\* SIGINT while the coroutine is suspended at an await: the task is
\* cancelled and CancelledError is thrown into the coroutine there.
InterruptAwait ==
    /\ ~interrupted
    /\ pc \in AwaitPcs
    /\ ~inner_catches(pc, "CancelledError")
    /\ interrupted' = TRUE
    /\ RaiseToMonitor("CancelledError")
    /\ UNCHANGED << cycle_count, send_to_api, jwt_token, results, pendingCancel,
                    wakeAt, now, stateFile, log, stopRequested >>
    /\ UNCHANGED sideVars

\* A requested cancellation is thrown at the await the coroutine has reached.
DeliverCancel ==
    /\ pendingCancel
    /\ pc \in AwaitPcs
    /\ ~inner_catches(pc, "CancelledError")
    /\ pendingCancel' = FALSE
    /\ RaiseToMonitor("CancelledError")
    /\ UNCHANGED << cycle_count, send_to_api, jwt_token, results, wakeAt, now,
                    stateFile, log, interrupted, stopRequested >>
    /\ UNCHANGED sideVars


----------------------------------------------------------------------------
(* CursorCollector.fetch_usage_with_interval_check, called by another task  *)
(* of the event loop: it runs only while the monitoring coroutine is        *)
(* suspended at an await.                                                   *)

\* The call up to its await: the state is loaded and the time read; unless
\* forced, a call within the minimum interval is skipped; otherwise
\* collect_usage runs, returning None without a session token and issuing
\* the GET with one.
fetch_begin(force_fetch, o) ==
    /\ fpc = "idle"
    /\ o \in {"no_token", "get"}
    /\ fcalls' = fcalls + 1
    /\ LET state == load_state(stateFile)
       IN  IF ~force_fetch /\ ~should_fetch_usage(state.last_cursor_fetch,
                                                  min_interval_seconds, now)
           THEN /\ fpc' = "idle"
                /\ fresult' = "skipped"
                /\ UNCHANGED << fstate, ftime >>
           ELSE IF o = "no_token"
                THEN /\ fpc' = "idle"
                     /\ fresult' = "no_data"
                     /\ UNCHANGED << fstate, ftime >>
                ELSE /\ fpc' = "fetching"
                     /\ fresult' = "none"
                     /\ fstate' = state
                     /\ ftime' = now
    /\ UNCHANGED << pc, running, cycle_count, send_to_api, jwt_token, results,
                    pendingCancel, wakeAt, now, stateFile, log, table,
                    interrupted, stopRequested, exc, call >>

\* The GET has ended: without data the call returns None and writes nothing;
\* with data it stores the time read at the start of the call in
\* last_cursor_fetch and saves the state.
fetch_end(o, outcome) ==
    /\ fpc = "fetching"
    /\ o \in {"no_data", "data"}
    /\ fpc' = "idle"
    /\ fresult' = o
    /\ fstate' = DefaultState
    /\ ftime' = 0
    /\ stateFile' = IF o = "data"
                    THEN save_state(stateFile,
                                    dict_set(dict_set(fstate, "last_cursor_fetch", ftime),
                                             "last_sent_summary", SampleSummary),
                                    outcome)
                    ELSE stateFile
    /\ UNCHANGED << pc, running, cycle_count, send_to_api, jwt_token, results,
                    pendingCancel, wakeAt, now, log, table, interrupted,
                    stopRequested, exc, fcalls, call >>

\* A call made by another task while the monitoring coroutine is suspended.
FetchCheckBegin(force_fetch, o) ==
    /\ pc \in AwaitPcs
    /\ fcalls < MaxFetchCalls
    /\ fetch_begin(force_fetch, o)
    /\ UNCHANGED fhist

FetchCheckEnd(o, outcome) ==
    /\ pc \in AwaitPcs
    /\ fetch_end(o, outcome)
    /\ UNCHANGED fhist

\* A call made on its own, no monitoring run going on (as the module's
\* main() does): the history records whether it was forced, the time it
\* read, the state file it found and left, and what it did.
FetchAloneBegin(force_fetch, o) ==
    /\ pc = "idle"
    /\ fcalls < MaxFetchSeq
    /\ fetch_begin(force_fetch, o)
    /\ fhist' = Append(fhist, [force_fetch  |-> force_fetch,
                               current_time |-> now,
                               file         |-> stateFile,
                               file_after   |-> stateFile,
                               did          |-> IF fpc' = "fetching" THEN "fetching"
                                                                     ELSE fresult',
                               saved        |-> "none"])

FetchAloneEnd(o, outcome) ==
    /\ pc = "idle"
    /\ (o = "no_data") => (outcome = "ok")
    /\ fetch_end(o, outcome)
    /\ fhist' = [fhist EXCEPT ![Len(fhist)].did        = o,
                              ![Len(fhist)].file_after = stateFile',
                              ![Len(fhist)].saved      = IF o = "data" THEN outcome
                                                                       ELSE "none"]

\* Time passes between the calls and during a fetch.
ClockTick ==
    /\ pc = "idle"
    /\ now + TimeStep <= MaxTime
    /\ now' = now + TimeStep
    /\ UNCHANGED << pc, running, cycle_count, send_to_api, jwt_token, results,
                    pendingCancel, wakeAt, stateFile, log, interrupted,
                    stopRequested, exc >>
    /\ UNCHANGED sideVars

----------------------------------------------------------------------------

Next ==
    \/ \E send \in BOOLEAN : Start(send)
    \/ LoopExit
    \/ \E outcome \in SaveOutcomes : FirstCycle(outcome)
    \/ LaterCycle
    \/ \E o \in {"no_token", "get", "raise"} : CollectCursorBegin(o)
    \/ \E o \in {"http_error", "no_events", "events", "raise"} : CollectCursorEnd(o)
    \/ \E o \in {"raise", "none"} \cup ClaudeData : CollectClaude(o)
    \/ Display
    \/ SendCursor
    \/ SendClaude
    \/ \E src \in {"cursor", "claude"}, o \in PostOutcomes : PostDone(src, o)
    \/ SleepBegin
    \/ Wake
    \/ Tick
    \/ StopMonitoring
    \/ InterruptRaise
    \/ InterruptSwallowed
    \/ InterruptCancel
    \/ InterruptAwait
    \/ DeliverCancel

\* A monitoring run of a single task: nothing else touches the state file.
Spec == Init /\ [][Next]_vars

FetchCheck ==
    \/ \E force_fetch \in BOOLEAN, o \in {"no_token", "get"} :
          FetchCheckBegin(force_fetch, o)
    \/ \E o \in {"no_data", "data"}, outcome \in SaveOutcomes :
          FetchCheckEnd(o, outcome)

NextShared == Next \/ FetchCheck

\* A monitoring run during which another task of the event loop calls
\* fetch_usage_with_interval_check on the same state file.
SpecShared == Init /\ [][NextShared]_vars

InitFetch ==
    /\ Init
    /\ jwt_token = ""

NextFetch ==
    \/ \E force_fetch \in BOOLEAN, o \in {"no_token", "get"} :
          FetchAloneBegin(force_fetch, o)
    \/ \E o \in {"no_data", "data"}, outcome \in SaveOutcomes :
          FetchAloneEnd(o, outcome)
    \/ ClockTick

\* Calls of fetch_usage_with_interval_check made one after the other, no
\* monitoring run going on.
SpecFetch == InitFetch /\ [][NextFetch]_vars


----------------------------------------------------------------------------
(* CursorCollector.parse_csv_data *)

\* A text is the sequence of its pieces; a double quote and a dollar sign
\* are pieces of their own, so that strip('"') and replace('$', '') act on
\* them.  Join is the Python string.
RECURSIVE Join(_)
Join(chunks) ==
    IF chunks = << >> THEN "" ELSE chunks[1] \o Join(Tail(chunks))

Quote == "\""

\* A value of the row dict csv.DictReader yields: the text of the field,
\* None for a field the line is too short to hold, or no entry at all for a
\* column the header does not name.
Text(chunks) == [k |-> "text",   chunks |-> chunks]
PyNone       == [k |-> "None",   chunks |-> << >>]
Absent       == [k |-> "absent", chunks |-> << >>]
\* The int 0 passed as default of row.get for the numeric columns.
PyZero       == [k |-> "int",    chunks |-> << >>]

\* row.get(column, default)
row_get(row, column, default) ==
    IF row[column].k = "absent" THEN default ELSE row[column]

\* s.strip('"'): raises AttributeError on None.
RECURSIVE lstrip_quotes(_)
lstrip_quotes(chunks) ==
    IF chunks # << >> /\ chunks[1] = Quote
    THEN lstrip_quotes(Tail(chunks))
    ELSE chunks

RECURSIVE rstrip_quotes(_)
rstrip_quotes(chunks) ==
    IF chunks # << >> /\ chunks[Len(chunks)] = Quote
    THEN rstrip_quotes(SubSeq(chunks, 1, Len(chunks) - 1))
    ELSE chunks

strip_raises(v) == v.k # "text"
strip_quotes(v) == Join(rstrip_quotes(lstrip_quotes(v.chunks)))

\* int(): the decimal literals among the sample texts and their values.
\* Any other text raises ValueError, None raises TypeError, int(0) is 0.
IntLiterals == {"0", "1", "2", "3", "4", "10"}
IntValue(s) ==
    CASE s = "0" -> 0 [] s = "1" -> 1 [] s = "2" -> 2 [] s = "3" -> 3
      [] s = "4" -> 4 [] s = "10" -> 10

int_raises(v) ==
    CASE v.k = "int"  -> FALSE
      [] v.k = "text" -> Join(v.chunks) \notin IntLiterals
      [] OTHER        -> TRUE

py_int(v) == IF v.k = "int" THEN 0 ELSE IntValue(Join(v.chunks))

\* float(): the literals among the sample texts and their values, in
\* hundredths of a dollar.  Any other text raises ValueError.
FloatLiterals == {"0", "0.00", "0.05", "1.50", "10"}
FloatValue(s) ==
    CASE s = "0" -> 0 [] s = "0.00" -> 0 [] s = "0.05" -> 5
      [] s = "1.50" -> 150 [] s = "10" -> 1000

\* cost_str.replace('$', '')
remove_dollar(chunks) == SelectSeq(chunks, LAMBDA c : c # "$")

\* `cost_str in ("Included")` only.
is_included_word_only(cost_str) == cost_str = "Included"

\* `cost_str in ("Included", "0", "")`
is_included(cost_str) == cost_str \in {"Included", "0", ""}

\* cost: 0.0 when included or when float() raises ValueError.
cost_of(v) ==
    LET cost_str == strip_quotes(v)
        digits   == Join(remove_dollar(rstrip_quotes(lstrip_quotes(v.chunks))))
    IN  IF is_included(cost_str) THEN 0
        ELSE IF digits \in FloatLiterals THEN FloatValue(digits) ELSE 0

TextColumns    == {"Date", "User", "Kind", "Model", "Cost ($)"}
NumericColumns == {"Input (w/ Cache Write)", "Input (w/o Cache Write)",
                   "Cache Read", "Output", "Total Tokens"}
Columns == TextColumns \cup NumericColumns

\* The body of the loop for one row: the event it appends, or nothing when
\* an exception is raised (`except Exception: continue`).
row_raises(row) ==
    \/ \E c \in TextColumns    : strip_raises(row_get(row, c, Text(<< >>)))
    \/ \E c \in NumericColumns : int_raises(row_get(row, c, PyZero))

usage_event(row) ==
    [date                |-> strip_quotes(row_get(row, "Date", Text(<< >>))),
     user                |-> strip_quotes(row_get(row, "User", Text(<< >>))),
     kind                |-> strip_quotes(row_get(row, "Kind", Text(<< >>))),
     model               |-> strip_quotes(row_get(row, "Model", Text(<< >>))),
     input_with_cache    |-> py_int(row_get(row, "Input (w/ Cache Write)", PyZero)),
     input_without_cache |-> py_int(row_get(row, "Input (w/o Cache Write)", PyZero)),
     cache_read          |-> py_int(row_get(row, "Cache Read", PyZero)),
     output              |-> py_int(row_get(row, "Output", PyZero)),
     total_tokens        |-> py_int(row_get(row, "Total Tokens", PyZero)),
     cost                |-> cost_of(row_get(row, "Cost ($)", Text(<< >>))),
     included_in_subscription
                         |-> is_included(strip_quotes(row_get(row, "Cost ($)", Text(<< >>))))]

RECURSIVE parse_rows(_)
parse_rows(rows) ==
    IF rows = << >> THEN << >>
    ELSE (IF row_raises(rows[1]) THEN << >> ELSE << usage_event(rows[1]) >>)
         \o parse_rows(Tail(rows))

\* parse_csv_data, given the rows csv.DictReader yields for csv_content.
parse_csv_data(rows) ==
    LET usage_events == parse_rows(rows)
    IN  [usage_events |-> usage_events,
         summary      |-> [total_events |-> Len(usage_events),
                           total_tokens |-> SumOver(usage_events, "total_tokens"),
                           total_cost   |-> SumOver(usage_events, "cost")]]

----------------------------------------------------------------------------
(* Functions called on their own.  Each action applies one function of the  *)
(* source to arguments drawn from a set of samples and records the call;   *)
(* a behaviour makes one such call.                                         *)

\* Times at which should_fetch_usage is called, seconds elapsed since the
\* last fetch, and minimum intervals passed to it.
ClockSamples    == {301, 400, StartTime, MaxTime}
ElapsedSamples  == {0, 1, 100, 299, 300, 301}
IntervalSamples == {min_interval_seconds, 60}

CallShouldFetch(last_fetch_time, min_interval, t) ==
    /\ call = NoCall
    /\ call' = [op              |-> "should_fetch_usage",
                last_fetch_time |-> last_fetch_time,
                min_interval    |-> min_interval,
                t               |-> t,
                result          |-> should_fetch_usage(last_fetch_time,
                                                       min_interval, t)]
    /\ UNCHANGED runVars

\* State objects of the program: the default state, states after a fetch
\* (time and summary stored), and a state read from a file that holds the
\* fetch time only.
StateSamples ==
    { dict_set(dict_set(DefaultState, "last_cursor_fetch", t),
               "last_sent_summary", summary) :
          t \in {0, StartTime, StartTime + 1, MaxTime},
          summary \in {EmptyDict, SampleSummary} }
    \cup { [last_cursor_fetch |-> t] : t \in {0, StartTime + 1} }

\* save_state(state) completes, then load_state().
CallSaveLoad(file, state) ==
    /\ call = NoCall
    /\ call' = [op     |-> "save_load",
                before |-> file,
                state  |-> state,
                loaded |-> load_state(save_state(file, state, "ok"))]
    /\ UNCHANGED runVars

\* save_state(state) is stopped at `point`, then load_state().
CallSaveInterrupted(file, state, point) ==
    /\ call = NoCall
    /\ call' = [op     |-> "save_state_interrupted",
                before |-> file,
                state  |-> state,
                point  |-> point,
                after  |-> save_state_interrupted(file, state, point),
                loaded |-> load_state(save_state_interrupted(file, state, point))]
    /\ UNCHANGED runVars

\* send_to_django with a token configured: the request is issued and ends
\* with resp.
CallSendToDjango(resp) ==
    /\ call = NoCall
    /\ call' = [op       |-> "send_to_django",
                resp     |-> resp,
                raises   |-> send_to_django_response(resp).raises,
                returned |-> send_to_django_response(resp).returned,
                message  |-> send_to_django_response(resp).message]
    /\ UNCHANGED runVars

\* Rows of an export: a well-formed row and rows that differ from it in one
\* or two fields.
GoodRow ==
    [c \in Columns |->
        CASE c = "Date"         -> Text(<< "2025-08-05T10:00:00.000Z" >>)
          [] c = "User"         -> Text(<< "user@example.com" >>)
          [] c = "Kind"         -> Text(<< "Included in Pro" >>)
          [] c = "Model"        -> Text(<< "gpt" >>)
          [] c = "Total Tokens" -> Text(<< "10" >>)
          [] c = "Cost ($)"     -> Text(<< "Included" >>)
          [] OTHER              -> Text(<< "2" >>)]

RowWith(column, v) == [GoodRow EXCEPT ![column] = v]

RowSamples ==
    { GoodRow }
    \cup { RowWith("Cost ($)", v) :
              v \in { Text(<< >>), Text(<< "0" >>), Text(<< "0.00" >>),
                      Text(<< "$", "0.05" >>), Text(<< "1.50" >>),
                      Text(<< "n/a" >>), Text(<< Quote, "Included", Quote >>),
                      Absent } }
    \cup { RowWith("Output", v) :
              v \in { Text(<< >>), Text(<< "n/a" >>), Absent, PyNone } }
    \cup { [RowWith("Total Tokens", Text(<< "1.5" >>))
               EXCEPT !["Cost ($)"] = Text(<< "0.05" >>)] }
    \cup { RowWith("Cache Read", Text(<< "2", "." , "0" >>)) }

\* Exports of up to MaxRows data rows.
RECURSIVE SeqsUpTo(_, _)
SeqsUpTo(S, n) ==
    IF n = 0 THEN { << >> }
    ELSE LET shorter == SeqsUpTo(S, n - 1)
         IN  shorter \cup { Append(q, x) : q \in { r \in shorter : Len(r) = n - 1 }, x \in S }

CallParseCsv(rows) ==
    /\ call = NoCall
    /\ call' = [op       |-> "parse_csv_data",
                rows     |-> rows,
                dropped  |-> [i \in DOMAIN rows |-> row_raises(rows[i])],
                result   |-> parse_csv_data(rows)]
    /\ UNCHANGED runVars

\* Events around the bounds of the period.
BillingEventSamples ==
    { Event(date, "gpt", "Included in Pro", 10, 0, TRUE) :
          date \in { "2025-07-31T23:59:59Z", "2025-08-01T00:00:00Z",
                     "2025-08-05T10:00:00.000Z", "2025-08-18T12:00:00Z",
                     "2025-08-18T12:00:01Z", "Aug 5, 2025" } }
    \cup { Event("2025-08-05T10:00:00.000Z", "claude", "usage-based", 20, 5, FALSE),
           Event("2025-08-05T10:00:00", "claude", "usage-based", 20, 5, FALSE) }

CallBilling(usage_events) ==
    /\ call = NoCall
    /\ call' = [op           |-> "calculate_billing_period_usage",
                usage_events |-> usage_events,
                period_start |-> PeriodStart,
                period_end   |-> PeriodEnd,
                result       |-> calculate_billing_period_usage(usage_events,
                                                                PeriodStart, PeriodEnd)]
    /\ UNCHANGED runVars

\* Events that share or differ in date, model, kind and inclusion; model
\* and kind names are free text of the export.
AggregateEventSamples ==
    { Event("2025-08-05T10:00:00.000Z", "gpt",   "fast",   10, 0, TRUE),
      Event("2025-08-05T23:30:00.000Z", "gpt",   "fast",   20, 0, TRUE),
      Event("2025-08-05T10:00:00.000Z", "gpt",   "fast",   10, 5, FALSE),
      Event("2025-08-18T12:00:00Z",     "gpt",   "fast",   10, 0, TRUE),
      Event("2025-08-05T10:00:00.000Z", "gpt_4", "fast",   30, 0, TRUE),
      Event("2025-08-05T10:00:00.000Z", "gpt",   "4_fast", 40, 0, TRUE),
      Event("Aug 5, 2025",              "gpt",   "fast",   10, 0, TRUE),
      [Event("2025-08-05T23:30:00.000Z", "gpt",  "fast",   50, 2, FALSE)
          EXCEPT !.input_with_cache = 4, !.input_without_cache = 3,
                 !.cache_read = 7, !.output = 36] }

CallAggregateCursor(usage_events) ==
    /\ call = NoCall
    /\ call' = [op           |-> "aggregate_cursor_data_for_api",
                usage_events |-> usage_events,
                result       |-> aggregate_cursor_data_for_api(
                                     [CursorUsageData EXCEPT !.usage_events = usage_events])]
    /\ UNCHANGED runVars

\* A dict without some of its keys.
Without(d, keys) == [k \in DOMAIN d \ keys |-> d[k]]

\* Two entries of one model with input/output tokens 5/3 and 2/1 and costs
\* of 0.10 and 0.05 (costs in hundredths).
M1Entries ==
    << [Breakdown("m1", 8, 10) EXCEPT !.inputTokens = 5, !.outputTokens = 3],
       [Breakdown("m1", 3, 5)  EXCEPT !.inputTokens = 2, !.outputTokens = 1] >>

\* Day entries of a ccusage document: two models, one model twice, a second
\* entry for the same date, an entry that is no dict, the two m1 entries,
\* and entries without a model name or without some of the metrics.
DaySamples ==
    { DayEntry("2025-08-05", << Breakdown("opus", 10, 5), Breakdown("sonnet", 20, 1) >>),
      DayEntry("2025-08-06", << Breakdown("opus", 10, 5), NotADict, Breakdown("opus", 30, 2) >>),
      DayEntry("2025-08-05", << Breakdown("opus", 40, 3) >>),
      DayEntry("2025-08-07", M1Entries),
      DayEntry("2025-08-08", << Without(Breakdown("opus", 10, 5), {"modelName"}),
                                Breakdown("unknown", 20, 1),
                                Without(Breakdown("opus", 30, 2),
                                        {"outputTokens", "cost", "cacheReadTokens"}),
                                Breakdown("opus", 40, 3) >>),
      NotADict }

CallAggregateClaude(daily) ==
    /\ call = NoCall
    /\ call' = [op     |-> "aggregate_claude_data_for_api",
                daily  |-> daily,
                result |-> aggregate_claude_data_for_api(
                               [ClaudeUsageData("ok") EXCEPT !.daily = daily])]
    /\ UNCHANGED runVars

\* What running `ccusage daily --json ...` can end with: subprocess.run
\* raises (binary missing, non-zero exit with check=True, 30 s timeout,
\* another OS error, an interrupt of the process), or the command exits
\* with status 0 and its standard output is no JSON, or is the JSON text of
\* a usage document, of an empty object, of a non-empty list or of null.
SubprocessErrors == {"FileNotFoundError", "CalledProcessError", "TimeoutExpired",
                     "PermissionError", "KeyboardInterrupt"}
StdoutKinds == {"not_json", "dict", "empty_dict", "list", "null"}
CcusageOutcomes ==
    [raised : SubprocessErrors, stdout : {""}] \cup [raised : {"none"}, stdout : StdoutKinds]

\* Exception, as opposed to BaseException only.
IsException(e) == e # "KeyboardInterrupt"

\* json.loads(result.stdout): the value, by kind, or JSONDecodeError.
json_loads(stdout) ==
    IF stdout = "not_json"
    THEN [raised |-> "JSONDecodeError", value |-> None]
    ELSE [raised |-> "none", value |-> IF stdout = "null" THEN None ELSE stdout]

\* The except clauses of run_ccusage_command without the last one.
ccusage_catches_named_only(e) ==
    e \in {"CalledProcessError", "FileNotFoundError", "JSONDecodeError", "TimeoutExpired"}

\* The except clauses of run_ccusage_command: four named classes, then
\* `except Exception`.
ccusage_catches(e) ==
    \/ e \in {"CalledProcessError", "FileNotFoundError", "JSONDecodeError", "TimeoutExpired"}
    \/ IsException(e)

\* run_ccusage_command: what it raises, if anything, and what it returns.
run_ccusage_command(outcome) ==
    LET body == IF outcome.raised # "none"
                THEN [raised |-> outcome.raised, value |-> None]
                ELSE json_loads(outcome.stdout)
    IN  IF body.raised = "none" THEN body
        ELSE IF ccusage_catches(body.raised)
        THEN [raised |-> "none", value |-> None]
        ELSE body

\* bool(usage_data) of a parsed document.
truthy(value) == value \in {"dict", "list"}

\* ClaudeCodeCollector.collect_usage: `if usage_data:` attaches the metadata
\* (a TypeError when the document is a list) and returns the document,
\* otherwise returns None.
claude_collect_usage(outcome) ==
    LET usage_data == run_ccusage_command(outcome)
    IN  IF usage_data.raised # "none"
        THEN [raised |-> usage_data.raised, value |-> None, metadata |-> FALSE]
        ELSE IF truthy(usage_data.value)
        THEN IF usage_data.value = "dict"
             THEN [raised |-> "none", value |-> "dict", metadata |-> TRUE]
             ELSE [raised |-> "TypeError", value |-> None, metadata |-> FALSE]
        ELSE [raised |-> "none", value |-> None, metadata |-> FALSE]

CallClaudeCollectUsage(outcome) ==
    /\ call = NoCall
    /\ call' = [op      |-> "claude_collect_usage",
                outcome |-> outcome,
                invoked |-> run_ccusage_command(outcome),
                result  |-> claude_collect_usage(outcome)]
    /\ UNCHANGED runVars

\* Results of the IDE source passed to the table: None, and results with a
\* billing summary of no model, of one model and of two models met in
\* either order.
CursorDataSamples ==
    { NoData,
      collect_cursor_usage(<< >>),
      collect_cursor_usage(<< Event("2025-08-05T10:00:00.000Z", "gpt",   "fast", 10, 0, TRUE),
                              Event("2025-08-05T23:30:00.000Z", "gpt",   "fast", 20, 2, FALSE) >>),
      collect_cursor_usage(<< Event("2025-08-05T10:00:00.000Z", "gpt",   "fast", 10, 0, TRUE),
                              Event("2025-08-05T10:00:00.000Z", "gpt_4", "fast", 30, 4, FALSE),
                              Event("2025-08-05T23:30:00.000Z", "gpt",   "fast", 20, 2, FALSE) >>),
      collect_cursor_usage(<< Event("2025-08-05T10:00:00.000Z", "gpt_4", "fast", 30, 4, FALSE),
                              Event("2025-08-05T10:00:00.000Z", "gpt",   "fast", 10, 0, TRUE) >>) }

\* Results of the CLI-tool source passed to the table: None, documents with
\* the given days with and without the optional totals, a document without
\* daily data, and one whose totals are not numbers.
ClaudeDataSamples ==
    { NoData, Without(ClaudeUsageData("ok"), {"daily"}), ClaudeUsageData("bad_totals") }
    \cup { [ClaudeUsageData("ok") EXCEPT !.daily = daily] :
              daily \in SeqsUpTo(DaySamples, MaxDays) }
    \cup { Without([ClaudeUsageData("ok") EXCEPT !.daily = daily], {"totals"}) :
              daily \in SeqsUpTo(DaySamples, MaxDays) }

CallDisplay(cursor_data, claude_data) ==
    /\ call = NoCall
    /\ call' = [op          |-> "display_combined_usage_table",
                cursor_data |-> cursor_data,
                claude_data |-> claude_data,
                result      |-> display_combined_usage_table(cursor_data, claude_data)]
    /\ UNCHANGED runVars

\* What the GET of the export can end with: a response (status code and
\* body: nothing, a header line only, or a header line and rows), or an
\* exception of httpx (timeout, refused connection) or the cancellation of
\* the task, raised at the await.
GetStatusCodes == {200, 401, 403, 500, 503}
GetErrors == {"ReadTimeout", "ConnectError", "CancelledError"}
GetOutcomes ==
    [raised : {"none"}, status_code : {200}, text : {"", "header", "header_and_rows"}]
    \cup [raised : {"none"}, status_code : GetStatusCodes \ {200}, text : {"error page"}]
    \cup [raised : GetErrors, status_code : {0}, text : {""}]

\* response.raise_for_status()
raise_for_status(response) ==
    IF 400 <= response.status_code /\ response.status_code < 600
    THEN "HTTPStatusError" ELSE "none"

\* What the handler of httpx.HTTPStatusError prints after the "HTTP error"
\* line.
status_message(status_code) ==
    CASE status_code = 401 -> "Unauthorized - Invalid session token"
      [] status_code = 403 -> "Forbidden - Token may be expired or insufficient permissions"
      [] status_code = 500 -> "Server error - Cursor API is down"
      [] OTHER             -> ""

\* fetch_csv_export: what it prints, what it raises and what it returns to
\* its caller.  Both handlers fall through to `return ""`; an exception
\* that is no Exception is not handled.
fetch_csv_export(outcome) ==
    IF outcome.raised # "none"
    THEN IF outcome.raised # "CancelledError"
         THEN [printed |-> "Unexpected error", raised |-> "none", value |-> ""]
         ELSE [printed |-> "", raised |-> outcome.raised, value |-> ""]
    ELSE IF raise_for_status(outcome) # "none"
    THEN [printed |-> status_message(outcome.status_code), raised |-> "none", value |-> ""]
    ELSE [printed |-> "", raised |-> "none", value |-> outcome.text]

\* CursorCollector.collect_usage: None without a session token, without
\* CSV content or without usage events in it, the complete data otherwise.
cursor_collect_usage(session_token, outcome) ==
    IF session_token = None
    THEN [printed |-> "Failed to get session token", raised |-> "none", value |-> None]
    ELSE LET csv_content == fetch_csv_export(outcome)
         IN  IF csv_content.raised # "none"
             THEN [printed |-> "", raised |-> csv_content.raised, value |-> None]
             ELSE IF csv_content.value = ""
             THEN [printed |-> "Failed to fetch CSV data from Cursor API",
                   raised |-> "none", value |-> None]
             ELSE IF csv_content.value = "header"
             THEN [printed |-> "No usage events found in CSV data",
                   raised |-> "none", value |-> None]
             ELSE [printed |-> "", raised |-> "none", value |-> "data"]

CallFetchCsvExport(session_token, outcome) ==
    /\ call = NoCall
    /\ call' = [op            |-> "fetch_csv_export",
                session_token |-> session_token,
                outcome       |-> outcome,
                result        |-> fetch_csv_export(outcome),
                collected     |-> cursor_collect_usage(session_token, outcome)]
    /\ UNCHANGED runVars

\* A datetime at midnight UTC, by its date.
Date(year, month, day) == [year |-> year, month |-> month, day |-> day]

\* a < b and a <= b of two datetimes.
date_lt(a, b) ==
    \/ a.year < b.year
    \/ a.year = b.year /\ a.month < b.month
    \/ a.year = b.year /\ a.month = b.month /\ a.day < b.day
date_le(a, b) == a = b \/ date_lt(a, b)

\* datetime.MAXYEAR, and the days of a month.
MAXYEAR == 9999
is_leap(year) == year % 4 = 0 /\ (year % 100 # 0 \/ year % 400 = 0)
days_in_month(year, month) ==
    IF month = 2 THEN (IF is_leap(year) THEN 29 ELSE 28)
    ELSE IF month \in {4, 6, 9, 11} THEN 30 ELSE 31

\* period_start.replace(year=year, month=next_month) raises ValueError when
\* the year is out of range or the month has no such day.
replace_raises(dt, year, month) ==
    year > MAXYEAR \/ dt.day > days_in_month(year, month)
replace(dt, year, month) == [dt EXCEPT !.year = year, !.month = month]

\* The loop of get_current_billing_period from a period_start on: what it
\* raises, or the period it returns.
RECURSIVE billing_period_from(_, _)
billing_period_from(period_start, t) ==
    LET next_month == IF period_start.month = 12 THEN 1 ELSE period_start.month + 1
        year       == IF period_start.month = 12 THEN period_start.year + 1
                                                 ELSE period_start.year
    IN  IF replace_raises(period_start, year, next_month)
        THEN [raised |-> "ValueError", period_start |-> period_start,
              period_end |-> period_start]
        ELSE LET period_end == replace(period_start, year, next_month)
             IN  IF date_le(period_start, t) /\ date_lt(t, period_end)
                 THEN [raised |-> "none", period_start |-> period_start,
                       period_end |-> period_end]
                 ELSE billing_period_from(period_end, t)

get_current_billing_period(anchor, t) == billing_period_from(anchor, t)

\* Anchors (the default one, days 29 and 31, a December one, one in the
\* last years of the calendar) and times of the call.  The loop runs once
\* for every month between the anchor and the time, and to the end of the
\* calendar for a time before the anchor: the pairs are those of a time at
\* most a year after the anchor, and a time before the anchor is taken with
\* the last anchor only.
AnchorSamples ==
    { Date(2024, 9, 28), Date(2024, 1, 31), Date(2024, 1, 29), Date(2024, 12, 15),
      Date(9998, 11, 28) }
NowSamples ==
    { Date(2024, 1, 31), Date(2024, 3, 1), Date(2024, 9, 28), Date(2024, 10, 27),
      Date(2024, 10, 28), Date(2024, 12, 15), Date(2025, 1, 20), Date(2025, 3, 1),
      Date(9998, 10, 1), Date(9999, 1, 5) }
BillingPeriodSamples ==
    { s \in AnchorSamples \X NowSamples :
         /\ s[2].year - s[1].year \in {0, 1}
         /\ date_le(s[1], s[2]) \/ s[1].year + 1 = MAXYEAR }

CallBillingPeriod(anchor, t) ==
    /\ call = NoCall
    /\ call' = [op     |-> "get_current_billing_period",
                anchor |-> anchor,
                t      |-> t,
                result |-> get_current_billing_period(anchor, t)]
    /\ UNCHANGED runVars

InitCalls ==
    /\ Init
    /\ jwt_token = ""
    /\ stateFile = FileAbsent

NextCalls ==
    \/ \E s \in BillingPeriodSamples : CallBillingPeriod(s[1], s[2])
    \/ \E session_token \in {None, "token"}, outcome \in GetOutcomes :
          CallFetchCsvExport(session_token, outcome)
    \/ \E cursor_data \in CursorDataSamples, claude_data \in ClaudeDataSamples :
          CallDisplay(cursor_data, claude_data)
    \/ \E outcome \in CcusageOutcomes : CallClaudeCollectUsage(outcome)
    \/ \E usage_events \in SeqsUpTo(BillingEventSamples, MaxEvents) :
          CallBilling(usage_events)
    \/ \E usage_events \in SeqsUpTo(AggregateEventSamples, MaxEvents) :
          CallAggregateCursor(usage_events)
    \/ \E daily \in SeqsUpTo(DaySamples, MaxDays) : CallAggregateClaude(daily)
    \/ \E rows \in SeqsUpTo(RowSamples, MaxRows) : CallParseCsv(rows)
    \/ \E resp \in PostOutcomes : CallSendToDjango(resp)
    \/ \E t \in ClockSamples, d \in ElapsedSamples, m \in IntervalSamples :
          CallShouldFetch(t - d, m, t)
    \/ \E t \in ClockSamples, m \in IntervalSamples : CallShouldFetch(0, m, t)
    \/ \E file \in InitialFiles, state \in StateSamples : CallSaveLoad(file, state)
    \/ \E file \in InitialFiles, state \in StateSamples, point \in SavePoints :
          CallSaveInterrupted(file, state, point)

\* A call of a single function.
SpecCalls == InitCalls /\ [][NextCalls]_vars


----------------------------------------------------------------------------
(* Reading the history of the current cycle *)

Has(ev) == \E i \in DOMAIN log : log[i][1] = ev
HasD(ev, detail) == \E i \in DOMAIN log : log[i] = <<ev, detail>>
Count(ev) == Cardinality({ i \in DOMAIN log : log[i][1] = ev })
LastIs(ev, detail) == Len(log) > 0 /\ log[Len(log)] = <<ev, detail>>
Before(ev1, ev2) ==
    \A j \in DOMAIN log : log[j][1] = ev2 =>
        \E i \in DOMAIN log : i < j /\ log[i][1] = ev1

Sources == {"cursor", "claude"}

----------------------------------------------------------------------------
(* C1 *)

\* C1: collect_both_usage attempts both sources in every cycle.  Once a
\* cycle has reached the display, both extractions were attempted, whatever
\* the IDE extraction did (raised, returned no data, returned data); each
\* result is None exactly when that source raised or had no data; and no
\* exception raised by an extraction ends the run.
C1_BothSourcesAttempted ==
    /\ (pc = "display" \/ Has("display")) =>
          /\ Has("cursor_try") /\ Has("claude_try")
          /\ Before("cursor_result", "claude_try")
          /\ results.cursor = None <=>
                (HasD("cursor_result", "raise") \/ HasD("cursor_result", "none"))
          /\ results.cursor # None <=> HasD("cursor_result", "data")
          /\ results.claude = None <=>
                (HasD("claude_result", "raise") \/ HasD("claude_result", "none"))
          /\ results.claude # None <=> HasD("claude_result", "data")
    /\ (pc \in EndPcs /\ exc = "Exception") =>
          ~(LastIs("cursor_result", "raise") \/ LastIs("claude_result", "raise"))

\* The IDE extraction raised and the CLI-tool extraction still delivered.
C1_Witness ==
    /\ pc = "display"
    /\ HasD("cursor_result", "raise")
    /\ results = [cursor |-> None, claude |-> "ok"]

----------------------------------------------------------------------------
(* C2 *)

\* Place of each event in the order of a cycle.
PhaseRank(ev) ==
    CASE ev \in {"load_state", "reset"} -> 0
      [] ev \in {"cursor_try", "get", "cursor_result"} -> 1
      [] ev \in {"claude_try", "claude_result"} -> 2
      [] ev = "display" -> 3
      [] ev \in {"send_cursor", "post_cursor", "sent_cursor"} -> 4
      [] ev \in {"aggregate_claude", "send_claude", "post_claude", "sent_claude"} -> 4
      [] ev = "sleep" -> 5
      [] ev = "woke" -> 6

CycleInOrder ==
    /\ \A i, j \in DOMAIN log : i < j => PhaseRank(log[i][1]) <= PhaseRank(log[j][1])
    /\ Has("display") => Has("cursor_result") /\ Has("claude_result")
    /\ \A src \in Sources :
          /\ Before("display", "send_" \o src)
          /\ Before("display", "post_" \o src)
          /\ Has("send_" \o src) => send_to_api
    /\ Before("display", "sleep")

\* C2: within every cycle the phases occur in the order collect, display,
\* send (only if enabled), sleep: the display starts after both extractions
\* have finished, a POST is issued only after the display of its cycle and
\* only with sending enabled, and a cycle after the first starts only from a
\* sleep that has lasted the whole interval.
C2_PhaseOrder ==
    [][ /\ CycleInOrder'
        /\ (cycle_count' = cycle_count + 1 /\ cycle_count >= 1) =>
              /\ LastIs("woke", "")
              /\ Has("sleep")
              /\ now >= wakeAt ]_vars

\* A second cycle has displayed and posted both sources.
C2_Witness ==
    /\ cycle_count = 2
    /\ send_to_api
    /\ Has("post_cursor") /\ Has("post_claude")
    /\ pc = "sleeping"

----------------------------------------------------------------------------
(* C3 *)

\* C3: the throttle state is reset in cycle 1 and in no later cycle: the
\* history of a cycle holds a reset exactly when the cycle is the first, a
\* reset whose write succeeded leaves last_cursor_fetch = 0 in the file, and
\* a first cycle that has reached the display has attempted the IDE fetch,
\* whatever the state file held.
C3_ResetOnFirstCycleOnly ==
    /\ Has("reset") <=> cycle_count = 1
    /\ Count("reset") <= 1
    /\ (cycle_count = 1 /\ pc = "collect_cursor" /\ HasD("reset", "ok")) =>
          /\ stateFile.content = "json"
          /\ load_state(stateFile).last_cursor_fetch = 0
    /\ (cycle_count = 1 /\ (pc = "display" \/ Has("display"))) => Has("cursor_try")

\* The first cycle has reset the file and issued the GET of the export.
C3_Witness ==
    /\ cycle_count = 1
    /\ HasD("reset", "ok")
    /\ pc = "cursor_fetching"
    /\ Has("get")
    /\ load_state(stateFile).last_cursor_fetch = 0

----------------------------------------------------------------------------
(* C4 *)

\* C4: the CollectionState is loaded at the start of every cycle, and after
\* an IDE fetch that succeeded the persisted last_cursor_fetch is the time
\* of that fetch, a time of this run, and no longer 0.
C4_StatePersistedAfterFetch ==
    /\ (cycle_count >= 1 /\ pc \notin {"idle", "loop_top"} \cup EndPcs) =>
          Has("load_state")
    /\ (pc = "collect_claude" /\ HasD("cursor_result", "data")) =>
          /\ stateFile.content = "json"
          /\ load_state(stateFile).last_cursor_fetch >= StartTime
          /\ load_state(stateFile).last_cursor_fetch <= now

----------------------------------------------------------------------------
(* C5 *)

\* C5: in a cycle after the first, the GET of the IDE export is issued only
\* if should_fetch holds of the persisted last_cursor_fetch at that time.
C5_FetchGatedByThrottle ==
    [][ (pc = "collect_cursor" /\ pc' = "cursor_fetching" /\ cycle_count > 1) =>
           should_fetch_usage(load_state(stateFile).last_cursor_fetch,
                              min_interval_seconds, now) ]_vars

----------------------------------------------------------------------------
(* C6 *)

\* C6: an interrupt stops the run cleanly: a run that has ended after an
\* interrupt has returned and its running flag is false.
C6_InterruptStopsCleanly ==
    (interrupted /\ pc \in EndPcs) => (pc = "returned" /\ running = FALSE)


----------------------------------------------------------------------------
(* C7 *)

\* A failure the cycle isolates: a state write that failed, an extraction
\* that raised, a send that was refused or failed.
IsolatedFailure(entry) ==
    \/ entry[1] = "reset" /\ entry[2] # "ok"
    \/ entry[1] \in {"cursor_result", "claude_result"} /\ entry[2] = "raise"
    \/ entry[1] \in {"sent_cursor", "sent_claude"} /\ entry[2] # "success"

----------------------------------------------------------------------------
(* C8 *)

SendPhaseOver == pc \in {"sleep_begin", "sleeping"}

----------------------------------------------------------------------------
(* C9 *)

\* C9: in every cycle at most one POST is issued per source, whatever the
\* outcome of the first, and none when sending is disabled.
C9_AtMostOnePostPerSource ==
    /\ \A src \in Sources :
          /\ Count("post_" \o src) <= 1
          /\ Count("send_" \o src) <= 1
          /\ Count("sent_" \o src) <= 1
    /\ ~send_to_api => \A src \in Sources : ~Has("post_" \o src) /\ ~Has("send_" \o src)

\* Both POSTs of a cycle failed and the cycle went to sleep after one POST
\* each.
C9_Witness ==
    /\ pc = "sleeping"
    /\ HasD("sent_cursor", "exception")
    /\ HasD("sent_claude", "http_error")
    /\ Count("post_cursor") = 1 /\ Count("post_claude") = 1

----------------------------------------------------------------------------
(* C10 *)

\* C10: without a token send_to_django fails without a request: no POST is
\* ever issued with an empty token, a send is refused exactly then, and the
\* refusal stops only that send: with sending enabled every source with a
\* result is still handed to send_to_django and the cycle reaches its sleep.
C10_NoTokenNoRequest ==
    /\ jwt_token = "" => \A src \in Sources : ~Has("post_" \o src)
    /\ \A src \in Sources :
          HasD("sent_" \o src, "no_token") <=> (Has("send_" \o src) /\ jwt_token = "")
    /\ (jwt_token = "" /\ send_to_api /\ SendPhaseOver) =>
          \A src \in Sources : results[src] # None => HasD("sent_" \o src, "no_token")
    /\ (pc \in EndPcs /\ Len(log) > 0 /\ log[Len(log)][2] = "no_token") => interrupted

\* Both sends of a cycle were refused for lack of a token and the cycle went
\* to sleep.
C10_Witness ==
    /\ jwt_token = ""
    /\ pc = "sleeping"
    /\ HasD("sent_cursor", "no_token")
    /\ HasD("sent_claude", "no_token")

----------------------------------------------------------------------------
(* C12 *)

\* C12: should_fetch(last, min_interval, now) is true exactly when
\* now - last > min_interval, strictly: with the default 300 s it is true for
\* last = 0 and any now > 300, false for last = now - 100, and false when
\* exactly 300 s have elapsed.
C12_ShouldFetchStrict ==
    call.op = "should_fetch_usage" =>
        /\ call.result <=> (call.t - call.last_fetch_time > call.min_interval)
        /\ (call.min_interval = 300 /\ call.last_fetch_time = 0 /\ call.t > 300)
              => call.result
        /\ (call.min_interval = 300 /\ call.last_fetch_time = call.t - 100)
              => ~call.result
        /\ (call.min_interval = 300 /\ call.t - call.last_fetch_time = 300)
              => ~call.result

\* A call made exactly 300 s after the last fetch has been refused.
C12_Witness ==
    /\ call.op = "should_fetch_usage"
    /\ call.min_interval = 300
    /\ call.last_fetch_time > 0
    /\ call.t - call.last_fetch_time = 300
    /\ ~call.result

----------------------------------------------------------------------------
(* C13 *)

\* C13: a save that is stopped at any point leaves the file holding the
\* complete new state or the complete previous one, and the load that
\* follows reads no truncated document: it returns the new state or what a
\* load before the save returned.
C13_InterruptedSaveIsAtomic ==
    call.op = "save_state_interrupted" =>
        /\ call.after \in {call.before, FileOf(call.state)}
        /\ call.after.content # "corrupt" \/ call.before.content = "corrupt"
        /\ call.loaded \in {call.state, load_state(call.before)}

----------------------------------------------------------------------------
(* C14 *)

\* C14: save_state(s) followed by load_state(), with no write in between and
\* no I/O error, returns a state equal to s, for every state object s,
\* whatever the file held before.
C14_SaveLoadRoundTrip ==
    call.op = "save_load" => call.loaded = call.state

\* A state with a fetch time and a stored summary has made the round trip.
C14_Witness ==
    /\ call.op = "save_load"
    /\ "last_sent_summary" \in DOMAIN call.state
    /\ DOMAIN call.state.last_sent_summary # {}
    /\ call.state.last_cursor_fetch > StartTime
    /\ call.before.content = "json"
    /\ call.loaded = call.state

----------------------------------------------------------------------------
(* C11 *)

\* The message send_to_django prints for a response.
C11_MessageFor(resp) == send_to_django_response(resp).message

\* C11: send_to_django maps the response code to an outcome: 200 returns
\* True; every other code returns False; 401, 429, 400 and 413 each print a
\* message no other of these codes prints; and neither a response nor a
\* network error raises to the caller.
C11_ResponseCodeDecidesOutcome ==
    /\ call.op = "send_to_django" =>
          /\ ~call.raises
          /\ call.resp.status = "200" => call.returned
          /\ call.resp.status # "200" => ~call.returned
    /\ \A r1, r2 \in PostOutcomes :
          (/\ r1.status \in {"401", "429", "400", "413"}
           /\ r2.status \in {"401", "429", "400", "413"}
           /\ r1.status # r2.status)
              => C11_MessageFor(r1) # C11_MessageFor(r2)

----------------------------------------------------------------------------
(* C15 *)

\* The events of a parse, each with the row it came from: the k-th event
\* belongs to the k-th row that was not dropped.
RECURSIVE KeptRows(_, _)
KeptRows(rows, dropped) ==
    IF rows = << >> THEN << >>
    ELSE (IF dropped[1] THEN << >> ELSE << rows[1] >>)
         \o KeptRows(Tail(rows), Tail(dropped))

\* The cost field of a row as the export holds it, a missing column read
\* as "", and the same without the double quotes around it.
RawCost(row) ==
    IF row["Cost ($)"].k = "absent" THEN "" ELSE Join(row["Cost ($)"].chunks)
UnquotedCost(row) ==
    IF row["Cost ($)"].k = "absent" THEN "" ELSE strip_quotes(row["Cost ($)"])

\* C15 as stated: parse_csv_data returns at most one event per data row;
\* an event whose raw cost field is "", "0" or "Included" has cost 0 and is
\* included in the subscription, and an event with any other raw cost is
\* not included.
C15_RawCostDecidesIncluded ==
    call.op = "parse_csv_data" =>
        LET events == call.result.usage_events
            kept   == KeptRows(call.rows, call.dropped)
        IN  /\ Len(events) <= Len(call.rows)
            /\ Len(events) = Len(kept)
            /\ \A k \in DOMAIN events :
                  IF RawCost(kept[k]) \in {"", "0", "Included"}
                  THEN events[k].cost = 0 /\ events[k].included_in_subscription
                  ELSE ~events[k].included_in_subscription

\* C15, amended: the same, the cost field being taken without the double
\* quotes around it.
C15_UnquotedCostDecidesIncluded ==
    call.op = "parse_csv_data" =>
        LET events == call.result.usage_events
            kept   == KeptRows(call.rows, call.dropped)
        IN  /\ Len(events) <= Len(call.rows)
            /\ Len(events) = Len(kept)
            /\ \A k \in DOMAIN events :
                  IF UnquotedCost(kept[k]) \in {"", "0", "Included"}
                  THEN events[k].cost = 0 /\ events[k].included_in_subscription
                  ELSE ~events[k].included_in_subscription

\* An export of two rows has been parsed: one row gave an event with cost
\* "0", included; the other one with a dollar amount, not included.
C15_Witness ==
    /\ call.op = "parse_csv_data"
    /\ Len(call.rows) = 2
    /\ Len(call.result.usage_events) = 2
    /\ RawCost(call.rows[1]) = "0"
    /\ call.result.usage_events[1].included_in_subscription
    /\ RawCost(call.rows[2]) = "$0.05"
    /\ ~call.result.usage_events[2].included_in_subscription
    /\ call.result.usage_events[2].cost = 5

----------------------------------------------------------------------------
(* C16 *)

\* The event key that holds each numeric column.
C16_EventKey(column) ==
    CASE column = "Input (w/ Cache Write)"  -> "input_with_cache"
      [] column = "Input (w/o Cache Write)" -> "input_without_cache"
      [] column = "Cache Read"              -> "cache_read"
      [] column = "Output"                  -> "output"
      [] column = "Total Tokens"            -> "total_tokens"

\* A numeric field that is missing or does not read as an integer.
C16_Unparseable(row, column) ==
    \/ row[column].k \in {"absent", "None"}
    \/ row[column].k = "text" /\ Join(row[column].chunks) \notin IntLiterals

\* C16: a row whose numeric field is missing or unparseable is not dropped:
\* every row (whose text fields are there) yields an event, in which each
\* such field is zero.
C16_BadNumberReadsAsZero ==
    call.op = "parse_csv_data" =>
        /\ \A i \in DOMAIN call.rows :
              (\A c \in TextColumns : call.rows[i][c].k # "None")
                  => ~call.dropped[i]
        /\ LET events == call.result.usage_events
               kept   == KeptRows(call.rows, call.dropped)
           IN  \A k \in DOMAIN events : \A c \in NumericColumns :
                  C16_Unparseable(kept[k], c) => events[k][C16_EventKey(c)] = 0

----------------------------------------------------------------------------
(* C17 *)

\* The events whose date lies in the half-open period [start, end).
C17_InHalfOpenPeriod(events, period_start, period_end) ==
    SelectSeq(events,
              LAMBDA event :
                  /\ fromisoformat(event.date).valid
                  /\ fromisoformat(event.date).aware
                  /\ period_start <= fromisoformat(event.date).instant
                  /\ fromisoformat(event.date).instant < period_end)

\* C17: the billing summary counts exactly the events dated in the half-open
\* period [period_start, period_end): total_requests, total_tokens,
\* total_cost and the per-model breakdown are those of these events, an
\* event dated exactly period_end not among them.
C17_BillingPeriodHalfOpen ==
    call.op = "calculate_billing_period_usage" =>
        LET inside == C17_InHalfOpenPeriod(call.usage_events,
                                           call.period_start, call.period_end)
            models == { inside[i].model : i \in DOMAIN inside }
        IN  /\ call.result.total_requests = Len(inside)
            /\ call.result.total_tokens = SumOver(inside, "total_tokens")
            /\ call.result.total_cost = SumOver(inside, "cost")
            /\ DOMAIN call.result.model_usage = models
            /\ \A m \in models :
                  call.result.model_usage[m].requests =
                      Len(SelectSeq(inside, LAMBDA event : event.model = m))

----------------------------------------------------------------------------
(* C18 *)

\* The composite key of an event and of an aggregate record.
EventTuple(event) ==
    << date_key(event.date), event.model, event.kind, event.included_in_subscription >>
RecordTuple(record) ==
    << record.date, record.model, record.kind, record.included_in_subscription >>

MetricFields == {"input_with_cache", "input_without_cache", "cache_read",
                 "output", "total_tokens", "cost"}

\* C18: aggregate_cursor_data_for_api groups the events by (date-only part,
\* model, kind, included_in_subscription): one record per distinct tuple of
\* the input, no record for two different tuples, and in each record the
\* sums over exactly the events of its tuple.
C18_OneRecordPerTuple ==
    call.op = "aggregate_cursor_data_for_api" =>
        LET events  == call.usage_events
            records == call.result.daily_aggregates
            tuples  == { EventTuple(events[i]) : i \in DOMAIN events }
        IN  /\ Len(records) = Cardinality(tuples)
            /\ \A tp \in tuples :
                  LET mine == SelectSeq(events, LAMBDA event : EventTuple(event) = tp)
                  IN  \E i \in DOMAIN records :
                         /\ RecordTuple(records[i]) = tp
                         /\ records[i].requests = Len(mine)
                         /\ \A f \in MetricFields : records[i][f] = SumOver(mine, f)

----------------------------------------------------------------------------
(* C19 *)

\* The sum of a field over the records that carry a tuple.
SumFor(records, tp, field) ==
    SumOver(SelectSeq(records, LAMBDA record : RecordTuple(record) = tp), field)

C19_Aggregate(events) ==
    aggregate_cursor_data_for_api(
        [CursorUsageData EXCEPT !.usage_events = events]).daily_aggregates

\* C19: for every split of the event list into two batches, aggregating
\* each batch and merging the records by (date, model, kind,
\* included_in_subscription) gives the per-key sums, requests included, of
\* aggregating the whole list.
C19_BatchesMergeToWhole ==
    call.op = "aggregate_cursor_data_for_api" =>
        \A k \in 0 .. Len(call.usage_events) :
            LET first  == C19_Aggregate(SubSeq(call.usage_events, 1, k))
                second == C19_Aggregate(SubSeq(call.usage_events, k + 1,
                                               Len(call.usage_events)))
                whole  == call.result.daily_aggregates
                tuples == { RecordTuple(first[i])  : i \in DOMAIN first }
                          \cup { RecordTuple(second[i]) : i \in DOMAIN second }
                          \cup { RecordTuple(whole[i])  : i \in DOMAIN whole }
            IN  \A tp \in tuples : \A f \in MetricFields \cup {"requests"} :
                    SumFor(first, tp, f) + SumFor(second, tp, f) = SumFor(whole, tp, f)

----------------------------------------------------------------------------
(* C20 *)

\* The sequence q in the order given by the permutation p of its indices.
Permuted(q, p) == [i \in DOMAIN q |-> q[p[i]]]
RecordSet(records) == { records[i] : i \in DOMAIN records }

C20_AggregateClaude(daily) ==
    aggregate_claude_data_for_api(
        [ClaudeUsageData("ok") EXCEPT !.daily = daily]).daily_aggregates

\* A day entry with its breakdown entries in another order.
C20_DayVariants(day_entry) ==
    IF ~day_entry.is_dict THEN { day_entry }
    ELSE { [day_entry EXCEPT !.modelBreakdowns = Permuted(@, p)] :
              p \in Permutations(DOMAIN day_entry.modelBreakdowns) }

\* C20: both aggregators give the same set of records for every order of
\* their input: every permutation of the events (IDE), every permutation of
\* the day entries and of the breakdown entries of a day (CLI tool).
C20_OrderIndependent ==
    /\ call.op = "aggregate_cursor_data_for_api" =>
          \A p \in Permutations(DOMAIN call.usage_events) :
              RecordSet(C19_Aggregate(Permuted(call.usage_events, p)))
                  = RecordSet(call.result.daily_aggregates)
    /\ call.op = "aggregate_claude_data_for_api" =>
          /\ \A p \in Permutations(DOMAIN call.daily) :
                RecordSet(C20_AggregateClaude(Permuted(call.daily, p)))
                    = RecordSet(call.result.daily_aggregates)
          /\ \A i \in DOMAIN call.daily : \A v \in C20_DayVariants(call.daily[i]) :
                RecordSet(C20_AggregateClaude([call.daily EXCEPT ![i] = v]))
                    = RecordSet(call.result.daily_aggregates)

----------------------------------------------------------------------------
(* C21 *)

\* The dict entries of a sequence of the ccusage document.
Dicts(seq) == SelectSeq(seq, LAMBDA x : x.is_dict)

\* The model name an entry of modelBreakdowns counts for.
C21_ModelOf(breakdown) ==
    IF "modelName" \in DOMAIN breakdown THEN breakdown.modelName ELSE "unknown"

\* The model names of a day entry.
C21_Models(day_entry) ==
    LET entries == Dicts(day_entry.modelBreakdowns)
    IN  { C21_ModelOf(entries[i]) : i \in DOMAIN entries }

\* The sum of a metric over the entries of a model, an absent metric
\* counting as zero.
RECURSIVE C21_Sum(_, _, _)
C21_Sum(entries, model, field) ==
    IF entries = << >> THEN 0
    ELSE (IF C21_ModelOf(entries[1]) = model /\ field \in DOMAIN entries[1]
          THEN entries[1][field] ELSE 0)
         + C21_Sum(Tail(entries), model, field)

\* The number of records the day entries before the k-th account for.
RECURSIVE C21_RecordsBefore(_, _)
C21_RecordsBefore(days, k) ==
    IF k <= 1 THEN 0
    ELSE C21_RecordsBefore(days, k - 1) + Cardinality(C21_Models(days[k - 1]))

\* The metric of the document each field of a record sums.
C21_Metric ==
    [input_tokens          |-> "inputTokens",
     output_tokens         |-> "outputTokens",
     cache_creation_tokens |-> "cacheCreationTokens",
     cache_read_tokens     |-> "cacheReadTokens",
     total_tokens          |-> "totalTokens",
     cost                  |-> "cost"]

\* C21: aggregate_claude_data_for_api gives, for each day entry in turn,
\* one record per model name of the day's breakdown entries (an entry
\* without a model name counting for "unknown"), carrying the day's date and,
\* in each metric field, the sum over that model's entries of the day with an
\* absent metric counted as zero; two m1 entries 5/3/0.10 and 2/1/0.05 give
\* one m1 record with input_tokens 7, output_tokens 4 and cost 0.15.
C21_OneRecordPerModelOfDay ==
    call.op = "aggregate_claude_data_for_api" =>
        LET days    == Dicts(call.daily)
            records == call.result.daily_aggregates
        IN  /\ Len(records) = C21_RecordsBefore(days, Len(days) + 1)
            /\ \A k \in DOMAIN days : \A m \in C21_Models(days[k]) :
                  LET first == C21_RecordsBefore(days, k) + 1
                      last  == C21_RecordsBefore(days, k + 1)
                      mine  == { i \in first .. last : records[i].model = m }
                  IN  /\ Cardinality(mine) = 1
                      /\ \A i \in mine :
                            /\ records[i].date = days[k].date
                            /\ \A f \in DOMAIN C21_Metric :
                                  records[i][f] =
                                      C21_Sum(Dicts(days[k].modelBreakdowns), m,
                                              C21_Metric[f])

\* A call on a document whose days hold the two m1 entries, summed to 7, 4
\* and 0.15, and an entry without a model name next to an "unknown" one.
C21_Witness ==
    /\ call.op = "aggregate_claude_data_for_api"
    /\ \E i \in DOMAIN call.daily :
          call.daily[i].is_dict /\ call.daily[i].modelBreakdowns = M1Entries
    /\ \E i \in DOMAIN call.result.daily_aggregates :
          LET record == call.result.daily_aggregates[i]
          IN  /\ record.model = "m1"
              /\ record.input_tokens = 7
              /\ record.output_tokens = 4
              /\ record.cost = 15
    /\ \E i \in DOMAIN call.result.daily_aggregates :
          LET record == call.result.daily_aggregates[i]
          IN  /\ record.model = "unknown"
              /\ record.total_tokens = 30

----------------------------------------------------------------------------
(* C22 *)

\* C22: no two records of the daily_aggregates that
\* aggregate_claude_data_for_api returns share their (date, model) pair,
\* also when a date appears in more than one day entry of the input.
C22_DateModelIsKey ==
    call.op = "aggregate_claude_data_for_api" =>
        LET records == call.result.daily_aggregates
        IN  \A i, j \in DOMAIN records :
                (records[i].date = records[j].date /\ records[i].model = records[j].model)
                    => i = j

----------------------------------------------------------------------------
(* C23 *)

\* The failure kinds of an invocation: executable not found, non-zero exit,
\* output that is no valid JSON, timeout, any other unexpected error.
C23_FailureKind(outcome) ==
    \/ outcome.raised # "none" /\ IsException(outcome.raised)
    \/ outcome.raised = "none" /\ outcome.stdout = "not_json"

\* C23: for each failure kind run_ccusage_command raises nothing and returns
\* None, and collect_usage then raises nothing, returns None and attaches
\* no metadata.
C23_FailuresReturnNoData ==
    (call.op = "claude_collect_usage" /\ C23_FailureKind(call.outcome)) =>
        /\ call.invoked.raised = "none"
        /\ call.invoked.value = None
        /\ call.result.raised = "none"
        /\ call.result.value = None
        /\ ~call.result.metadata

\* A call in which the command fails with an error that no named except
\* clause covers.
C23_Witness ==
    /\ call.op = "claude_collect_usage"
    /\ call.outcome.raised = "PermissionError"
    /\ call.result.value = None

----------------------------------------------------------------------------
(* C24 *)

\* The current cycle's IDE extractor has thrown, its CLI-tool extractor has
\* returned a result, and the cycle has moved on from there, no interrupt
\* having been delivered to the run.
C24_IdeThrewCliSucceeded ==
    /\ HasD("cursor_result", "raise")
    /\ HasD("claude_result", "data")
    /\ pc # "display"
    /\ ~interrupted

\* The totals of the CLI-tool result of the cycle.
C24_Totals == ResultData(results.claude).totals

----------------------------------------------------------------------------
(* C25 *)

\* The rows of a provider, in the order of the table.
C25_RowsOf(rows, provider) == SelectSeq(rows, LAMBDA row : row.provider = provider)

\* The model names the breakdowns of a CLI-tool result carry.
C25_ModelNames(claude_data) ==
    IF "daily" \notin DOMAIN claude_data THEN {}
    ELSE LET days == SelectSeq(claude_data.daily,
                               LAMBDA day : day.is_dict /\ "modelBreakdowns" \in DOMAIN day)
         IN  UNION { { days[i].modelBreakdowns[j].modelName :
                          j \in { n \in DOMAIN days[i].modelBreakdowns :
                                     /\ days[i].modelBreakdowns[n].is_dict
                                     /\ "modelName" \in DOMAIN days[i].modelBreakdowns[n] } } :
                     i \in DOMAIN days }

\* C25: the table has, for a CLI-tool result containing model breakdowns,
\* one row per distinct model name in ascending order of the names; for an
\* IDE result with a billing summary, one row per model of model_usage in
\* the order of that map, before the rows of the CLI tool; and exactly one
\* totals row.
C25_OneRowPerModel ==
    call.op = "display_combined_usage_table" =>
        LET rows   == call.result.rows
            ide    == C25_RowsOf(rows, "Cursor")
            cli    == C25_RowsOf(rows, "Claude")
            names  == C25_ModelNames(call.claude_data)
        IN  /\ Len(call.result.totals) = 1
            /\ rows = ide \o cli
            /\ "billing_period_summary" \in DOMAIN call.cursor_data =>
                  LET keys == call.cursor_data.billing_period_summary.model_usage_keys
                  IN  /\ Len(ide) = Len(keys)
                      /\ \A i \in DOMAIN keys : ide[i].model = keys[i]
            /\ names # {} =>
                  /\ Len(cli) = Cardinality(names)
                  /\ { cli[i].model : i \in DOMAIN cli } = names
                  /\ \A i, j \in DOMAIN cli :
                        i < j => NameRank(cli[i].model) < NameRank(cli[j].model)

----------------------------------------------------------------------------
(* C26 *)

\* The kinds of outcome the caller is to tell apart.
C26_Kind(outcome) ==
    CASE outcome.raised = "ReadTimeout"             -> "timeout"
      [] outcome.raised # "none"                    -> "other"
      [] outcome.status_code = 401                  -> "401"
      [] outcome.status_code = 403                  -> "403"
      [] outcome.status_code >= 500                 -> "5xx"
      [] outcome.status_code = 200 /\ outcome.text = "" -> "empty export"
      [] OTHER                                      -> "other"

\* What fetch_csv_export hands to its caller: the exception or the value.
C26_Surfaced(result) == << result.raised, result.value >>

\* C26: fetch_csv_export reports HTTP 401, HTTP 403, HTTP 5xx and a network
\* timeout to its caller as outcomes that differ from one another and from
\* the successful fetch of an empty export.
C26_ErrorKindsAreDistinct ==
    (call.op = "fetch_csv_export" /\ C26_Kind(call.outcome) # "other") =>
        \A other \in GetOutcomes :
            (C26_Kind(other) \notin {"other", C26_Kind(call.outcome)})
                => C26_Surfaced(fetch_csv_export(other)) # C26_Surfaced(call.result)

----------------------------------------------------------------------------
(* C27 *)

\* The metrics the claim names.
C27_AdditiveMetrics ==
    {"input_with_cache", "input_without_cache", "cache_read", "output", "total_tokens"}

\* C27: aggregate_cursor_data_for_api conserves counts and sums: the
\* requests of all records add up to the number of events, and for each
\* additive metric the sum over the records is the sum over the events.
C27_CountsAndSumsConserved ==
    call.op = "aggregate_cursor_data_for_api" =>
        /\ SumOver(call.result.daily_aggregates, "requests") = Len(call.usage_events)
        /\ \A f \in C27_AdditiveMetrics :
              SumOver(call.result.daily_aggregates, f) = SumOver(call.usage_events, f)

\* A call in which events are merged: three events, two records, one of
\* them counting two requests, and every additive metric present.
C27_Witness ==
    /\ call.op = "aggregate_cursor_data_for_api"
    /\ Len(call.usage_events) = 3
    /\ Len(call.result.daily_aggregates) = 2
    /\ \E i \in DOMAIN call.result.daily_aggregates :
          call.result.daily_aggregates[i].requests = 2
    /\ \A f \in C27_AdditiveMetrics : SumOver(call.usage_events, f) > 0

----------------------------------------------------------------------------
(* C28 *)

\* Whether a fetch was due when a recorded call read the state and the
\* time.
C28_Due(c) ==
    should_fetch_usage(load_state(c.file).last_cursor_fetch,
                       min_interval_seconds, c.current_time)

\* C28: of the calls of fetch_usage_with_interval_check made one after the
\* other: a non-forced call made when no fetch is due is skipped and leaves
\* the state file as it is; a call whose fetch gives no data leaves the
\* state file as it is; only a successful fetch changes the state file,
\* and it stores the time read at the start of its call as
\* last_cursor_fetch; a forced call is never skipped; and after a
\* successful call every non-forced call that starts no more than
\* min_interval_seconds after the time stored is skipped.
C28_ThrottledThroughState ==
    /\ \A i \in DOMAIN fhist :
          LET c == fhist[i]
          IN  /\ (~c.force_fetch /\ ~C28_Due(c)) =>
                    (c.did = "skipped" /\ c.file_after = c.file)
              /\ c.did = "no_data" => c.file_after = c.file
              /\ c.file_after # c.file => c.did = "data"
              /\ c.did = "data" =>
                    /\ c.file_after.content = "json"
                    /\ load_state(c.file_after).last_cursor_fetch = c.current_time
              /\ c.force_fetch => c.did # "skipped"
    /\ \A i, j \in DOMAIN fhist :
          ( /\ i < j
            /\ fhist[i].did = "data"
            /\ ~fhist[j].force_fetch
            /\ fhist[j].current_time - fhist[i].current_time <= min_interval_seconds )
          => fhist[j].did = "skipped"

----------------------------------------------------------------------------
(* C29 *)

\* The step in which stop_monitoring is called.
C29_StopStep == ~stopRequested /\ stopRequested'

\* C29: stop_monitoring only clears the running flag: the position of the
\* run, its cycle count, the end of its sleep and everything else stay as
\* they are; once it has been called the cycle count no longer increases;
\* a sleep ends only when its full interval has passed; a run stopped
\* during a cycle or a sleep returns, if no exception or interrupt ends it,
\* only from the loop test that follows the completed sleep; and a run has
\* ended with running still true only by an exception or an interrupt.
C29_StopOnlyClearsRunning ==
    /\ [][ /\ C29_StopStep =>
                /\ running' = FALSE
                /\ UNCHANGED << pc, cycle_count, send_to_api, jwt_token, results,
                                pendingCancel, wakeAt, now, stateFile, log,
                                table, interrupted, exc >>
           /\ stopRequested => cycle_count' = cycle_count
           /\ (pc = "sleeping" /\ pc' = "loop_top") =>
                 (now >= wakeAt /\ wakeAt' = wakeAt) ]_vars
    /\ []( /\ (pc = "returned" /\ stopRequested /\ exc = "none" /\ cycle_count > 0) =>
                 (LastIs("woke", "") /\ now >= wakeAt)
           /\ (pc \in EndPcs /\ running) => exc # "none" )

\* A run stopped by stop_monitoring after at least one cycle has returned
\* from the loop test after its sleep, no interrupt or exception involved.
C29_Witness ==
    /\ pc = "returned"
    /\ stopRequested
    /\ ~interrupted
    /\ exc = "none"
    /\ cycle_count >= 1
    /\ LastIs("woke", "")
    /\ ~running

----------------------------------------------------------------------------
(* C30 *)

\* The months from the year 0 to the month of a date.
C30_Months(d) == d.year * 12 + d.month

\* C30: get_current_billing_period(anchor, now) returns, for every anchor
\* and now, a period (start, end) with start <= now < end, start the anchor
\* advanced by a whole number of months and end the start advanced by one
\* month, December rolling over to January of the next year; also when now
\* is earlier than the anchor.
C30_ReturnsPeriodOfNow ==
    call.op = "get_current_billing_period" =>
        LET start == call.result.period_start
            end   == call.result.period_end
        IN  /\ call.result.raised = "none"
            /\ date_le(start, call.t)
            /\ date_lt(call.t, end)
            /\ start.day = call.anchor.day
            /\ end.day = start.day
            /\ C30_Months(end) = C30_Months(start) + 1
            /\ end.month = (IF start.month = 12 THEN 1 ELSE start.month + 1)

====
